---- MODULE Spec2Model ----
(***************************************************************************)
(* Verification model of the BTC display firmware (src/src/main.cpp,       *)
(* firmware 1.0.3): backoff controller, fetch client, update check,        *)
(* battery check and the setup()/loop() scheduler.                         *)
(*                                                                         *)
(* C "int" values are kept as 32-bit two's complement numbers.  "unsigned  *)
(* long" values (millis(), the last-run timestamps, the rate-limit         *)
(* deadline) are kept as their 32-bit pattern, written as the signed       *)
(* number with the same bits, and compared with LtU32.                     *)
(***************************************************************************)
EXTENDS Integers, Sequences, FiniteSets, TLC

\* ------------------------------------------------------------ bounds
\* Largest consecutive-failure count handed to calculateBackoff.
MaxAttempt == 21

\* ------------------------------------------------- program constants
INITIAL_BACKOFF_MS == 5000
MAX_BACKOFF_MS == 60000

\* ------------------------------------------------- 32-bit arithmetic
MaxInt32 == 2147483647
MinInt32 == -2147483647 - 1

\* a + b in 32 bits (two's complement wrap-around).
Add32(a, b) ==
  IF a >= 0 /\ b >= 0 /\ a > MaxInt32 - b
    THEN (a + MinInt32) + (b + MinInt32)
    ELSE IF a < 0 /\ b < 0 /\ a < MinInt32 - b
      THEN (a - MinInt32) + (b - MinInt32)
      ELSE a + b

Neg32(a) == IF a = MinInt32 THEN MinInt32 ELSE 0 - a

Sub32(a, b) == Add32(a, Neg32(b))

RECURSIVE Shl32(_, _)
\* a << k in 32 bits, 0 <= k <= 31.
Shl32(a, k) == IF k = 0 THEN a ELSE Shl32(Add32(a, a), k - 1)

RECURSIVE Mul32(_, _)
\* a * b in 32 bits.
Mul32(a, b) ==
  IF b = 0 THEN 0
  ELSE IF b = MinInt32 THEN (IF a % 2 = 0 THEN 0 ELSE MinInt32)
  ELSE IF b < 0 THEN Neg32(Mul32(a, 0 - b))
  ELSE LET half == Mul32(a, b \div 2)
       IN  Add32(IF b % 2 = 1 THEN a ELSE 0, Add32(half, half))

\* C integer division (truncation toward zero), b > 0.
DivC(a, b) == IF a >= 0 THEN a \div b ELSE 0 - ((0 - a) \div b)

\* Arduino random(howsmall, howbig): howsmall when the range is empty,
\* otherwise any value of howsmall .. howbig-1.
random(howsmall, howbig) ==
  IF howsmall >= howbig THEN {howsmall} ELSE howsmall .. (howbig - 1)

\* ------------------------------------------------ backoff controller
\* The value of "backoff" after the clamp (main.cpp:169-170).
BackoffBase(attempt) ==
  LET backoff == Mul32(INITIAL_BACKOFF_MS, Shl32(1, attempt - 1))
  IN  IF backoff > MAX_BACKOFF_MS THEN MAX_BACKOFF_MS ELSE backoff

\* calculateBackoff with the jitter bounds written without the division
\* by 5: random(-backoff, backoff).
calculateBackoff_fullJitter(attempt) ==
  IF attempt <= 0 THEN {0}
  ELSE LET backoff == BackoffBase(attempt)
       IN  { Add32(backoff, jitter) :
               jitter \in random(Neg32(backoff), backoff) }

\* int calculateBackoff(int attempt): the set of values it can return,
\* one for each value random() can draw.
calculateBackoff(attempt) ==
  IF attempt <= 0 THEN {0}
  ELSE LET backoff == BackoffBase(attempt)
       IN  { Add32(backoff, jitter) :
               jitter \in random(DivC(Neg32(backoff), 5), DivC(backoff, 5)) }

\* ------------------------------------------------------------ strings
\* An Arduino String is a sequence of one-character strings; C positions
\* count from 0, so the character at C position p is s[p + 1].
Chars(s) == { s[i] : i \in 1 .. Len(s) }

IsSpace(c) == c \in {" ", "\t", "\n", "\r"}

\* String::indexOf(ch, from): least C position >= from holding ch, or -1.
IndexOfChar(s, ch, from) ==
  LET hits == { p \in from .. (Len(s) - 1) : p >= 0 /\ s[p + 1] = ch }
  IN  IF hits = {} THEN -1 ELSE CHOOSE p \in hits : \A q \in hits : p <= q

\* String::indexOf(pattern) != -1.
Contains(s, pattern) ==
  \E p \in 0 .. (Len(s) - Len(pattern)) :
     \A k \in 1 .. Len(pattern) : s[p + k] = pattern[k]

\* String::substring(left, right), both arguments unsigned int: swapped
\* when left > right, empty when left is past the end, right clipped to
\* the length.
Substring(s, left, right) ==
  LET l == IF left > right THEN right ELSE left
      r == IF left > right THEN left ELSE right
  IN  IF l >= Len(s) THEN << >>
      ELSE SubSeq(s, l + 1, IF r > Len(s) THEN Len(s) ELSE r)

RECURSIVE TrimLeft(_)
TrimLeft(s) == IF Len(s) > 0 /\ IsSpace(s[1]) THEN TrimLeft(Tail(s)) ELSE s

RECURSIVE TrimRight(_)
TrimRight(s) ==
  IF Len(s) > 0 /\ IsSpace(s[Len(s)])
    THEN TrimRight(SubSeq(s, 1, Len(s) - 1))
    ELSE s

\* String::trim().
Trim(s) == TrimRight(TrimLeft(s))

HexDigits ==
  <<"0", "1", "2", "3", "4", "5", "6", "7", "8", "9",
    "a", "b", "c", "d", "e", "f", "A", "B", "C", "D", "E", "F">>

IsHexDigit(c) == \E d \in 1 .. 22 : HexDigits[d] = c

HexVal(c) ==
  LET d == CHOOSE e \in 1 .. 22 : HexDigits[e] = c
  IN  IF d <= 16 THEN d - 1 ELSE d - 7

RECURSIVE HexRun(_, _, _)
\* Reads hex digits of s from index i (1-based) on, with acc the value so
\* far, saturating at LONG_MAX: <<value, index after the last digit>>.
HexRun(s, i, acc) ==
  IF i <= Len(s) /\ IsHexDigit(s[i])
    THEN HexRun(s, i + 1,
                IF acc > (MaxInt32 - HexVal(s[i])) \div 16
                  THEN MaxInt32
                  ELSE 16 * acc + HexVal(s[i]))
    ELSE <<acc, i>>

\* The result of strtol once the sign (neg), the index d1 before the first
\* digit and the digit run are known: no digits converts nothing.
StrtolResult(neg, d1, run) ==
  IF run[2] = d1 + 1
    THEN [value |-> 0, end |-> 0]
    ELSE [value |-> IF neg THEN 0 - run[1] ELSE run[1], end |-> run[2] - 1]

\* strtol from index d0 (0-based) on, after white space and sign: an
\* optional 0x prefix, then the digits.
StrtolDigits(s, neg, d0) ==
  IF d0 + 2 <= Len(s) /\ s[d0 + 1] = "0" /\ s[d0 + 2] \in {"x", "X"}
    THEN StrtolResult(neg, d0 + 2, HexRun(s, d0 + 3, 0))
    ELSE StrtolResult(neg, d0, HexRun(s, d0 + 1, 0))

\* strtol from index ws (0-based) on, after white space: an optional sign.
StrtolSigned(s, ws) ==
  IF ws < Len(s) /\ s[ws + 1] \in {"+", "-"}
    THEN StrtolDigits(s, s[ws + 1] = "-", ws + 1)
    ELSE StrtolDigits(s, FALSE, ws)

\* strtol(s, &endPtr, 16): [value, end], end the C position endPtr points
\* to (0 when no digits were converted).  Leading white space, a sign and
\* a 0x prefix are accepted.
Strtol16(s) == StrtolSigned(s, Len(s) - Len(TrimLeft(s)))

\* main.cpp:189-193 on the trimmed first line and its conversion.
IsChunkSizeLine(firstLine, conv) ==
  /\ conv.end # 0
  /\ \/ conv.end = Len(firstLine)
     \/ firstLine[conv.end + 1] \in {"\r", " "}

\* main.cpp:182-193: does the first line read as a chunk size?
LooksChunkedAt(raw, firstLineEnd, firstLine) ==
  firstLineEnd # -1 /\ IsChunkSizeLine(firstLine, Strtol16(firstLine))

LooksChunkedFrom(raw, firstLineEnd) ==
  LooksChunkedAt(raw, firstLineEnd, Trim(Substring(raw, 0, firstLineEnd)))

LooksChunked(raw) == LooksChunkedFrom(raw, IndexOfChar(raw, "\n", 0))

SkipChar_never(raw, p, ch) == p

\* main.cpp:218-219: step over ch if it is the character at position p.
SkipChar(raw, p, ch) ==
  IF p < Len(raw) /\ raw[p + 1] = ch THEN p + 1 ELSE p

RECURSIVE ChunkLoop(_, _, _, _)
RECURSIVE ChunkStep(_, _, _, _, _)
ChunkStep_partial(raw, result, fuel, lineEnd, chunkSize) ==
  IF lineEnd = -1 \/ chunkSize = 0
    THEN [out |-> result, done |-> TRUE]
  ELSE IF lineEnd + 1 + chunkSize >= 0 /\ lineEnd + 1 + chunkSize <= Len(raw)
    THEN ChunkLoop(raw,
                   SkipChar(raw, SkipChar(raw, lineEnd + 1 + chunkSize, "\r"), "\n"),
                   result \o Substring(raw, lineEnd + 1, lineEnd + 1 + chunkSize),
                   fuel - 1)
    ELSE [out |-> result \o Substring(raw, lineEnd + 1, Len(raw)), done |-> TRUE]

\* main.cpp:209-221, one iteration once the size line ends at lineEnd and
\* reads chunkSize.  pos + chunkSize <= raw.length() compares as unsigned:
\* a negative sum is a huge number.
ChunkStep(raw, result, fuel, lineEnd, chunkSize) ==
  IF lineEnd = -1 \/ chunkSize = 0
    THEN [out |-> result, done |-> TRUE]
  ELSE IF lineEnd + 1 + chunkSize >= 0 /\ lineEnd + 1 + chunkSize <= Len(raw)
    THEN ChunkLoop(raw,
                   SkipChar(raw, SkipChar(raw, lineEnd + 1 + chunkSize, "\r"), "\n"),
                   result \o Substring(raw, lineEnd + 1, lineEnd + 1 + chunkSize),
                   fuel - 1)
    ELSE [out |-> result, done |-> TRUE]

\* main.cpp:201-207: the size line of the chunk at pos.
ChunkAt(raw, pos, result, fuel, lineEnd) ==
  ChunkStep(raw, result, fuel, lineEnd,
            Strtol16(Trim(Substring(raw, pos, lineEnd))).value)

\* main.cpp:200-222, the decode loop from position pos with the output so
\* far; fuel bounds the number of iterations followed.  [out, done]: done
\* is FALSE when the loop was still running when the fuel ran out.
ChunkLoop(raw, pos, result, fuel) ==
  IF ~(pos < Len(raw)) THEN [out |-> result, done |-> TRUE]
  ELSE IF fuel = 0 THEN [out |-> result, done |-> FALSE]
  ELSE ChunkAt(raw, pos, result, fuel, IndexOfChar(raw, "\n", pos))

\* String stripChunkedEncoding(const String& raw), main.cpp:178-225.
stripChunkedEncoding(raw) ==
  IF Len(raw) = 0 THEN << >>
  ELSE IF ~LooksChunked(raw) THEN raw
  ELSE ChunkLoop(raw, 0, << >>, Len(raw) + 1).out

\* ---------------------------------------------------- response bodies
\* {"bitcoin":{"usd":97000}}
PRICE_BODY_A ==
  <<"{", "\"", "b", "i", "t", "c", "o", "i", "n", "\"", ":", "{", "\"",
    "u", "s", "d", "\"", ":", "9", "7", "0", "0", "0", "}", "}">>

\* {"bitcoin":{"usd":42950}}
PRICE_BODY_B ==
  <<"{", "\"", "b", "i", "t", "c", "o", "i", "n", "\"", ":", "{", "\"",
    "u", "s", "d", "\"", ":", "4", "2", "9", "5", "0", "}", "}">>

\* {"error":"rate limit"}
RATE_LIMIT_BODY ==
  <<"{", "\"", "e", "r", "r", "o", "r", "\"", ":", "\"", "r", "a", "t",
    "e", " ", "l", "i", "m", "i", "t", "\"", "}">>

\* {"error_code":429}
ERROR_429_BODY ==
  <<"{", "\"", "e", "r", "r", "o", "r", "_", "c", "o", "d", "e", "\"", ":",
    "4", "2", "9", "}">>

\* {}
EMPTY_OBJECT_BODY ==
  <<"{", "}">>

\* <html>
HTML_BODY ==
  <<"<", "h", "t", "m", "l", ">">>

\* {"prices":[[1,96000],[2,97000]]}
CHART_BODY ==
  <<"{", "\"", "p", "r", "i", "c", "e", "s", "\"", ":", "[", "[", "1", ",",
    "9", "6", "0", "0", "0", "]", ",", "[", "2", ",", "9", "7", "0", "0",
    "0", "]", "]", "}">>

\* {"prices":[]}
CHART_EMPTY_BODY ==
  <<"{", "\"", "p", "r", "i", "c", "e", "s", "\"", ":", "[", "]", "}">>

RATE_LIMIT_TEXT == <<"r", "a", "t", "e", " ", "l", "i", "m", "i", "t">>

STATUS_429_TEXT == <<"4", "2", "9">>

RECURSIVE HexString(_)
\* n >= 0 written in lower-case hexadecimal.
HexString(n) ==
  IF n < 16 THEN << HexDigits[n + 1] >>
  ELSE HexString(n \div 16) \o << HexDigits[(n % 16) + 1] >>

\* body as one chunk of a chunked transfer, followed by the last-chunk.
ChunkFrame(body) ==
  HexString(Len(body)) \o <<"\r", "\n">> \o body
    \o <<"\r", "\n", "0", "\r", "\n", "\r", "\n">>

\* The JSON collaborator: the documents deserializeJson yields for the
\* texts it accepts; every other text is a DeserializationError.
NoDoc == [hasUsd |-> FALSE, usd |-> 0, hasPrices |-> FALSE, prices |-> << >>]

JsonTable ==
  { [text |-> PRICE_BODY_A, doc |-> [NoDoc EXCEPT !.hasUsd = TRUE, !.usd = 97000]],
    [text |-> PRICE_BODY_B, doc |-> [NoDoc EXCEPT !.hasUsd = TRUE, !.usd = 42950]],
    [text |-> RATE_LIMIT_BODY, doc |-> NoDoc],
    [text |-> ERROR_429_BODY, doc |-> NoDoc],
    [text |-> EMPTY_OBJECT_BODY, doc |-> NoDoc],
    [text |-> CHART_BODY,
     doc |-> [NoDoc EXCEPT !.hasPrices = TRUE,
                           !.prices = << <<1, 96000>>, <<2, 97000>> >>]],
    [text |-> CHART_EMPTY_BODY, doc |-> [NoDoc EXCEPT !.hasPrices = TRUE]] }

deserializeJson(payload) ==
  IF \E e \in JsonTable : e.text = payload
    THEN [error |-> FALSE, doc |-> (CHOOSE e \in JsonTable : e.text = payload).doc]
    ELSE [error |-> TRUE, doc |-> NoDoc]

\* ------------------------------------------------- unsigned long values
AddU32(a, b) == Add32(a, b)

SubU32(a, b) == Sub32(a, b)

\* The 32-bit pattern x with its top bit flipped: unsigned order of the
\* patterns is the signed order of the flipped ones.
FlipTop(x) == IF x >= 0 THEN x + MinInt32 ELSE x - MinInt32

LtU32(a, b) == FlipTop(a) < FlipTop(b)

GeU32(a, b) == ~LtU32(a, b)

\* --------------------------------------------------------- fetch client
PRICE_UPDATE_INTERVAL_BASE == 60000
CHART_UPDATE_INTERVAL_BASE == 900000
FIRMWARE_UPDATE_INTERVAL == 3600000
RATE_LIMIT_COOLDOWN_MS == 60000
PRICE_TIMEOUT_MS == 5000
CHART_TIMEOUT_MS == 10000

\* What one request can meet: no connection, no first byte before the
\* timeout, or a body; elapsed is the time the exchange took up to the
\* point the code goes on (ms).
FailedExchanges ==
  { [kind |-> "connect_failed", raw |-> << >>, elapsed |-> 300],
    [kind |-> "timeout", raw |-> << >>, elapsed |-> 300] }

BodyExchange(raw) == [kind |-> "body", raw |-> raw, elapsed |-> 1200]

PriceResponses ==
  FailedExchanges \cup
  { BodyExchange(b) :
      b \in { PRICE_BODY_A, ChunkFrame(PRICE_BODY_A), PRICE_BODY_B,
              RATE_LIMIT_BODY, ERROR_429_BODY, EMPTY_OBJECT_BODY, HTML_BODY } }

ChartResponses ==
  FailedExchanges \cup
  { BodyExchange(b) :
      b \in { CHART_BODY, ChunkFrame(CHART_BODY), CHART_EMPTY_BODY,
              RATE_LIMIT_BODY, EMPTY_OBJECT_BODY, HTML_BODY } }

\* The gate of the releases before 1.0.3, which had none.
InRateLimitBackoff_noGate(t, until) == FALSE

\* main.cpp:229 / 315: millis() < rateLimitBackoffUntil.
InRateLimitBackoff(t, until) == LtU32(t, until)

\* A test that looks for the phrase only.
RateLimitDetected_phraseOnly(payload) == Contains(payload, RATE_LIMIT_TEXT)

\* main.cpp:287 / 371: the rate-limit test on the decoded payload.
RateLimitDetected(payload) ==
  Contains(payload, RATE_LIMIT_TEXT) \/ Contains(payload, STATUS_429_TEXT)

\* Result of a fetch call: the return value, the globals and the caller's
\* out-parameter after it, millis() at return, the number of transport
\* sessions it opened, whether the body reached the JSON parser, and the
\* exit taken.
FetchResult(ret, until, failures, out, clk, sessions, parsed, exit) ==
  [ret |-> ret, until |-> until, failures |-> failures, out |-> out,
   clock |-> clk, sessions |-> sessions, parsed |-> parsed, exit |-> exit]

\* A success path that leaves the counter as it was.
FailuresAfterSuccess_kept(failures) == failures

\* main.cpp:305: consecutiveApiFailures = 0 on success.
FailuresAfterSuccess(failures) == 0

\* main.cpp:297-311: after deserializeJson returned json.
PriceParsed(until, failures, out, t1, json) ==
  IF json.error
    THEN FetchResult(FALSE, until, failures + 1, out, t1, 1, TRUE, "ParseError")
  ELSE IF json.doc.hasUsd
    THEN FetchResult(TRUE, until, FailuresAfterSuccess(failures),
                     json.doc.usd, t1, 1, TRUE, "Ok")
  ELSE FetchResult(FALSE, until, failures + 1, out, t1, 1, TRUE,
                   "InvalidStructure")

\* main.cpp:286-295: the decoded payload, in hand at millis() = t1.
PriceBody(until, failures, out, t1, payload) ==
  IF RateLimitDetected(payload)
    THEN FetchResult(FALSE, AddU32(t1, RATE_LIMIT_COOLDOWN_MS), failures + 1,
                     out, t1, 1, FALSE, "RateLimited")
    ELSE PriceParsed(until, failures, out, t1, deserializeJson(payload))

\* bool fetchCurrentPrice(float& out), main.cpp:228-312, entered when
\* millis() = t with the globals until (rateLimitBackoffUntil) and
\* failures (consecutiveApiFailures), meeting response resp.
fetchCurrentPrice(t, until, failures, out, resp) ==
  IF InRateLimitBackoff(t, until)
    THEN FetchResult(FALSE, until, failures, out, t, 0, FALSE, "Backoff")
  ELSE IF resp.kind = "connect_failed"
    THEN FetchResult(FALSE, until, failures + 1, out,
                     AddU32(t, resp.elapsed), 1, FALSE, "ConnectionFailed")
  ELSE IF resp.kind = "timeout"
    THEN FetchResult(FALSE, until, failures + 1, out,
                     AddU32(AddU32(t, resp.elapsed), PRICE_TIMEOUT_MS + 1),
                     1, FALSE, "Timeout")
  ELSE PriceBody(until, failures, out, AddU32(t, resp.elapsed),
                 stripChunkedEncoding(resp.raw))

\* main.cpp:393-398: the second element of every price point that has one.
RECURSIVE PricePoints(_)
PricePoints(prices) ==
  IF Len(prices) = 0 THEN << >>
  ELSE (IF Len(prices[1]) >= 2 THEN << prices[1][2] >> ELSE << >>)
         \o PricePoints(Tail(prices))

\* main.cpp:390-401: out after the loop over the points, and the result.
ChartFilled(until, failures, t1, points) ==
  FetchResult(Len(points) > 0, until, failures, points, t1, 1, TRUE,
              IF Len(points) > 0 THEN "Ok" ELSE "NoPoints")

\* main.cpp:380-401: after deserializeJson returned json.
ChartParsed(until, failures, out, t1, json) ==
  IF json.error
    THEN FetchResult(FALSE, until, failures, out, t1, 1, TRUE, "ParseError")
  ELSE IF ~json.doc.hasPrices
    THEN FetchResult(FALSE, until, failures, out, t1, 1, TRUE,
                     "InvalidStructure")
  ELSE ChartFilled(until, failures, t1, PricePoints(json.doc.prices))

\* main.cpp:370-378: the decoded payload, in hand at millis() = t1.
ChartBody(until, failures, out, t1, payload) ==
  IF RateLimitDetected(payload)
    THEN FetchResult(FALSE, AddU32(t1, RATE_LIMIT_COOLDOWN_MS), failures,
                     out, t1, 1, FALSE, "RateLimited")
    ELSE ChartParsed(until, failures, out, t1, deserializeJson(payload))

\* bool fetchWeekPrices(std::vector<float>& out), main.cpp:314-402.
fetchWeekPrices(t, until, failures, out, resp) ==
  IF InRateLimitBackoff(t, until)
    THEN FetchResult(FALSE, until, failures, out, t, 0, FALSE, "Backoff")
  ELSE IF resp.kind = "connect_failed"
    THEN FetchResult(FALSE, until, failures, out,
                     AddU32(t, resp.elapsed), 1, FALSE, "ConnectionFailed")
  ELSE IF resp.kind = "timeout"
    THEN FetchResult(FALSE, until, failures, out,
                     AddU32(AddU32(t, resp.elapsed), CHART_TIMEOUT_MS + 1),
                     1, FALSE, "Timeout")
  ELSE ChartBody(until, failures, out, AddU32(t, resp.elapsed),
                 stripChunkedEncoding(resp.raw))

\* ------------------------------------------------------ update check
\* Strings the code inspects character by character are sequences of
\* one-character strings.
FIRMWARE_VERSION == <<"1", ".", "0", ".", "3">>

\* Release tags the metadata can carry (bounded input set).
TagPool ==
  { <<"v", "1", ".", "0", ".", "3">>,
    <<"1", ".", "0", ".", "3">>,
    <<"V", "1", ".", "0", ".", "3">>,
    <<"v", "1", ".", "0", ".", "2">>,
    <<"v", "0", ".", "9", ".", "9">>,
    <<"v", "1", ".", "1", ".", "0">>,
    <<"v", "1", ".", "0", ".", "1", "0">>,
    <<"2", ".", "0">>,
    <<"a", "b", "c">>,
    << >> }

\* Release assets the metadata can carry (bounded input set).
AssetPool ==
  { [name |-> "firmware.bin", url |-> "releases/a/firmware.bin"],
    [name |-> "firmware.bin", url |-> "releases/b/firmware.bin"],
    [name |-> "bootloader.bin", url |-> "releases/a/bootloader.bin"],
    [name |-> "firmware.bin.sig", url |-> "releases/a/firmware.bin.sig"] }

\* Asset names ending in ".bin".
BinNames == {"firmware.bin", "bootloader.bin"}

\* Longest asset list of a release.
MaxAssets == 2

AssetLists == UNION { [1 .. n -> AssetPool] : n \in 0 .. MaxAssets }

\* What one metadata request can meet: no connection, no first byte within
\* 10 s, a body the JSON parser rejects, or a parsed document.
OtaResponses ==
  { [kind |-> k, tag |-> << >>, assets |-> << >>] :
        k \in {"connect_failed", "timeout", "json_error"} }
  \cup { [kind |-> "document", tag |-> t, assets |-> l] :
        t \in TagPool, l \in AssetLists }

\* Terminal results of httpUpdate.update().
WriterResults == {"HTTP_UPDATE_FAILED", "HTTP_UPDATE_NO_UPDATES", "HTTP_UPDATE_OK"}

\* main.cpp:459-462: drop one leading "v".
StripTagPrefix(tag) ==
  IF Len(tag) > 0 /\ tag[1] = "v" THEN Tail(tag) ELSE tag

\* main.cpp:468: the test that decides "new version available".
NewVersionAvailable(latestVersion) ==
  latestVersion # FIRMWARE_VERSION /\ Len(latestVersion) > 0

\* The asset loop of v1.0.0 (name.endsWith(".bin")): the first asset whose
\* name ends in ".bin".
FindFirmwareAsset_anyBin(assets) ==
  LET hits == { i \in 1 .. Len(assets) : assets[i].name \in BinNames }
  IN  IF hits = {} THEN 0 ELSE CHOOSE i \in hits : \A j \in hits : i <= j

\* main.cpp:472-482: index of the first asset named "firmware.bin", 0 when
\* the loop ends without one.
FindFirmwareAsset(assets) ==
  LET hits == { i \in 1 .. Len(assets) : assets[i].name = "firmware.bin" }
  IN  IF hits = {} THEN 0 ELSE CHOOSE i \in hits : \A j \in hits : i <= j

performFirmwareUpdate_restartAlways(url, ret) ==
  [url |-> url, ret |-> ret, restart |-> TRUE]

\* void performFirmwareUpdate(url): the device restarts exactly on
\* HTTP_UPDATE_OK; the two other results return to the caller.
performFirmwareUpdate(url, ret) ==
  [url |-> url, ret |-> ret, restart |-> (ret = "HTTP_UPDATE_OK")]

checkForFirmwareUpdate_everyAsset(r, writerRet) ==
  IF r.kind = "connect_failed"
    THEN [ret |-> FALSE, outcome |-> "ConnectionFailed", writer |-> << >>]
  ELSE IF r.kind = "timeout"
    THEN [ret |-> FALSE, outcome |-> "Timeout", writer |-> << >>]
  ELSE IF r.kind = "json_error"
    THEN [ret |-> FALSE, outcome |-> "ParseError", writer |-> << >>]
  ELSE LET latestVersion == StripTagPrefix(r.tag)
           hits == SelectSeq(r.assets, LAMBDA a : a.name = "firmware.bin")
       IN  IF NewVersionAvailable(latestVersion)
             THEN IF Len(hits) # 0
                    THEN [ret |-> TRUE, outcome |-> "UpdateStarted",
                          writer |-> [k \in 1 .. Len(hits) |->
                                        performFirmwareUpdate(hits[k].url, writerRet)]]
                    ELSE [ret |-> FALSE, outcome |-> "NoMatchingAsset", writer |-> << >>]
             ELSE [ret |-> FALSE, outcome |-> "UpToDate", writer |-> << >>]

\* bool checkForFirmwareUpdate(): outcome of one check on response r, with
\* writerRet the result the Firmware Writer would end with.  "writer" holds
\* one entry per performFirmwareUpdate call.
checkForFirmwareUpdate(r, writerRet) ==
  IF r.kind = "connect_failed"
    THEN [ret |-> FALSE, outcome |-> "ConnectionFailed", writer |-> << >>]
  ELSE IF r.kind = "timeout"
    THEN [ret |-> FALSE, outcome |-> "Timeout", writer |-> << >>]
  ELSE IF r.kind = "json_error"
    THEN [ret |-> FALSE, outcome |-> "ParseError", writer |-> << >>]
  ELSE LET latestVersion == StripTagPrefix(r.tag)
           i == FindFirmwareAsset(r.assets)
       IN  IF NewVersionAvailable(latestVersion)
             THEN IF i # 0
                    THEN [ret |-> TRUE, outcome |-> "UpdateStarted",
                          writer |-> << performFirmwareUpdate(r.assets[i].url, writerRet) >>]
                    ELSE [ret |-> FALSE, outcome |-> "NoMatchingAsset", writer |-> << >>]
             ELSE [ret |-> FALSE, outcome |-> "UpToDate", writer |-> << >>]

NoOtaResult == [ret |-> FALSE, outcome |-> "none", writer |-> << >>]

\* ---------------------------------------------------------- variables
VARIABLES
  attempt,        \* argument of the calculateBackoff call under test
  backoffResult,  \* its return value
  boPc,           \* "idle", "call" or "done"
  otaResp,        \* response met by the last checkForFirmwareUpdate call
  otaResult,      \* its outcome
  otaPc,          \* "idle", "call" or "done"
  otaLog,         \* the loop timestamps (now) of the update checks of this boot
  decodeInput,    \* buffer handed to the stripChunkedEncoding call under test
  decodeOutput,   \* its return value
  decodePc,       \* "idle", "call", "done" or "looping"
  readEndpoint,   \* "price", "chart" or "release": the read loop under test
  readStream,     \* bytes the client holds after the header lines
  rawPayload,     \* the String the read loop fills
  readPc,         \* "idle", "call" or "done"
  currentPrice,             \* main.cpp:87
  weekPrices,               \* main.cpp:88
  rateLimitBackoffUntil,    \* main.cpp:99
  consecutiveApiFailures,   \* main.cpp:100
  lastPriceUpdate,          \* main.cpp:89
  lastChartUpdate,          \* main.cpp:90
  lastFirmwareCheck,        \* main.cpp:91
  wifiConnected,            \* main.cpp:92
  batteryLow,               \* main.cpp:94
  PRICE_UPDATE_INTERVAL,    \* main.cpp:107
  CHART_UPDATE_INTERVAL,    \* main.cpp:108
  clock,          \* millis()
  wifiStatus,     \* WiFi.status() == WL_CONNECTED
  adcValue,       \* the reading checkBattery took, -1 before it ran
  batteryChecks,  \* checkBattery() calls of this boot
  batteryLog,     \* reading and batteryLow after each checkBattery() call
  priceText,      \* what drawPrice() left on the screen: "", "price", "NO DATA"
  wifiLog,        \* link losses and what loop() did about each outage
  pc,             \* position of the firmware: "off", "client", "boot",
                  \* "setup_price", "setup_chart", "loop", "chart",
                  \* "firmware", "restarted"
  now,            \* the local of loop()
  loops,          \* loop iterations that did something, so far
  calls,          \* fetch calls made by the client harness, so far
  lastFetch,      \* the fetch call of the step just taken, if it made one
  waited,         \* delay applied by the price step of this iteration
  priceLog,       \* return values of the fetchCurrentPrice calls of this boot
  twinMode,       \* two runs side by side: "off", "lead" or "follow"
  twinSaved,      \* where the step of the leading run started
  twinTarget,     \* where the step of the leading run ended
  twinShadow      \* battery state of the run that is not on the variables

boVars == <<attempt, backoffResult, boPc>>
otaVars == <<otaResp, otaResult, otaPc, otaLog>>
decodeVars == <<decodeInput, decodeOutput, decodePc>>
readVars == <<readEndpoint, readStream, rawPayload, readPc>>
twinVars == <<twinMode, twinSaved, twinTarget, twinShadow>>
auxVars == <<decodeVars, readVars, twinVars>>
clientVars ==
  <<currentPrice, weekPrices, rateLimitBackoffUntil, consecutiveApiFailures,
    lastFetch>>
timerVars ==
  <<lastPriceUpdate, lastChartUpdate, lastFirmwareCheck,
    PRICE_UPDATE_INTERVAL, CHART_UPDATE_INTERVAL>>
boardVars ==
  <<wifiConnected, wifiStatus, batteryLow, adcValue, batteryChecks, batteryLog>>
loopVars == <<now, loops, waited, priceLog>>
screenVars == <<priceText, wifiLog>>
sysVars ==
  <<clientVars, timerVars, boardVars, loopVars, screenVars, clock, pc, calls>>
vars == <<boVars, otaVars, auxVars, sysVars>>

IdleBackoff == attempt = 0 /\ backoffResult = 0 /\ boPc = "idle"

IdleOta ==
  /\ otaResp = [kind |-> "connect_failed", tag |-> << >>, assets |-> << >>]
  /\ otaResult = NoOtaResult
  /\ otaPc = "idle"
  /\ otaLog = << >>

IdleDecode ==
  /\ decodeInput = [kind |-> "none", fragments |-> << >>, raw |-> << >>]
  /\ decodeOutput = << >>
  /\ decodePc = "idle"

IdleRead ==
  /\ readEndpoint = "none"
  /\ readStream = << >>
  /\ rawPayload = << >>
  /\ readPc = "idle"

IdleTwin ==
  /\ twinMode = "off"
  /\ twinSaved = << >>
  /\ twinTarget = << >>
  /\ twinShadow = << >>

IdleAux == IdleDecode /\ IdleRead /\ IdleTwin

NoResponse == [kind |-> "none", raw |-> << >>, elapsed |-> 0]

NoFetch ==
  [fn |-> "none", at |-> 0, resp |-> NoResponse,
   untilBefore |-> 0, failuresBefore |-> 0, outKept |-> TRUE,
   ret |-> FALSE, exit |-> "none", sessions |-> 0, parsed |-> FALSE,
   untilAfter |-> 0, failuresAfter |-> 0, clockAfter |-> 0]

\* What a call of fetch function fn at millis() = t, meeting resp, did:
\* r is its FetchResult, until/failures/out the values it found.
Observed(fn, t, resp, until, failures, out, r) ==
  [fn |-> fn, at |-> t, resp |-> resp,
   untilBefore |-> until, failuresBefore |-> failures, outKept |-> (r.out = out),
   ret |-> r.ret, exit |-> r.exit, sessions |-> r.sessions, parsed |-> r.parsed,
   untilAfter |-> r.until, failuresAfter |-> r.failures, clockAfter |-> r.clock]

\* The globals as their declarations initialise them (main.cpp:87-108).
GlobalsAtReset ==
  /\ currentPrice = 0
  /\ weekPrices = << >>
  /\ rateLimitBackoffUntil = 0
  /\ consecutiveApiFailures = 0
  /\ lastPriceUpdate = 0
  /\ lastChartUpdate = 0
  /\ lastFirmwareCheck = 0
  /\ wifiConnected = FALSE
  /\ batteryLow = FALSE
  /\ PRICE_UPDATE_INTERVAL = PRICE_UPDATE_INTERVAL_BASE
  /\ CHART_UPDATE_INTERVAL = CHART_UPDATE_INTERVAL_BASE

NothingObserved ==
  /\ adcValue = -1
  /\ batteryChecks = 0
  /\ batteryLog = << >>
  /\ priceText = ""
  /\ wifiLog = << >>
  /\ now = 0
  /\ loops = 0
  /\ calls = 0
  /\ lastFetch = NoFetch
  /\ waited = 0
  /\ priceLog = << >>

IdleSystem ==
  /\ GlobalsAtReset
  /\ NothingObserved
  /\ clock = 0
  /\ wifiStatus = FALSE
  /\ pc = "off"

\* The globals and the clock after a fetchCurrentPrice call at millis() = t
\* that met resp and ended as r.
PriceFetched(t, resp, r) ==
  /\ currentPrice' = r.out
  /\ rateLimitBackoffUntil' = r.until
  /\ consecutiveApiFailures' = r.failures
  /\ clock' = r.clock
  /\ lastFetch' = Observed("price", t, resp, rateLimitBackoffUntil,
                           consecutiveApiFailures, currentPrice, r)

\* A fetchCurrentPrice(currentPrice) call at millis() = t.
CallPriceAt(t, resp) ==
  PriceFetched(t, resp,
               fetchCurrentPrice(t, rateLimitBackoffUntil,
                                 consecutiveApiFailures, currentPrice, resp))

\* The same for fetchWeekPrices.
ChartFetched(t, resp, r) ==
  /\ weekPrices' = r.out
  /\ rateLimitBackoffUntil' = r.until
  /\ consecutiveApiFailures' = r.failures
  /\ clock' = r.clock
  /\ lastFetch' = Observed("chart", t, resp, rateLimitBackoffUntil,
                           consecutiveApiFailures, weekPrices, r)

\* A fetchWeekPrices(weekPrices) call at millis() = t.
CallChartAt(t, resp) ==
  ChartFetched(t, resp,
               fetchWeekPrices(t, rateLimitBackoffUntil,
                               consecutiveApiFailures, weekPrices, resp))

\* ------------------------------------- calculateBackoff on every input
InitBackoff ==
  /\ attempt \in 0 .. MaxAttempt
  /\ backoffResult = 0
  /\ boPc = "call"
  /\ IdleOta
  /\ IdleAux
  /\ IdleSystem

CallCalculateBackoff ==
  /\ boPc = "call"
  /\ \E r \in calculateBackoff(attempt) : backoffResult' = r
  /\ boPc' = "done"
  /\ UNCHANGED <<attempt, otaVars, auxVars, sysVars>>

NextBackoff == CallCalculateBackoff

SpecBackoff == InitBackoff /\ [][NextBackoff]_vars

\* -------------------------------- checkForFirmwareUpdate on every input
InitUpdate ==
  /\ otaResp \in OtaResponses
  /\ otaResult = NoOtaResult
  /\ otaPc = "call"
  /\ otaLog = << >>
  /\ IdleBackoff
  /\ IdleAux
  /\ IdleSystem

CallCheckForFirmwareUpdate ==
  /\ otaPc = "call"
  /\ \E w \in WriterResults : otaResult' = checkForFirmwareUpdate(otaResp, w)
  /\ otaPc' = "done"
  /\ UNCHANGED <<otaResp, otaLog, boVars, auxVars, sysVars>>

NextUpdate == CallCheckForFirmwareUpdate

SpecUpdate == InitUpdate /\ [][NextUpdate]_vars

\* ------------------------------- the update check on what the server sent
\* A release document as the server delivers it: the body as it is, or in
\* chunks (size line, data, "0" line).
MetadataFramings == {"plain", "chunked"}

WireResponses ==
  { [kind |-> "document", tag |-> t, assets |-> l, framing |-> f] :
        t \in TagPool, l \in AssetLists, f \in MetadataFramings }

NULL_TAG == <<"n", "u", "l", "l">>

\* main.cpp:441-455: the body is read into payload and handed to
\* deserializeJson as read; stripChunkedEncoding is not called.  A chunked
\* body starts with its size line, so the parser either rejects it or
\* reads the size as a number, a document without tag_name and assets.
ParseMetadata(wire) ==
  IF wire.framing = "plain"
    THEN { [kind |-> "document", tag |-> wire.tag, assets |-> wire.assets] }
    ELSE { [kind |-> "json_error", tag |-> << >>, assets |-> << >>],
           [kind |-> "document", tag |-> NULL_TAG, assets |-> << >>] }

InitMeta ==
  /\ otaResp \in WireResponses
  /\ otaResult = NoOtaResult
  /\ otaPc = "call"
  /\ otaLog = << >>
  /\ IdleBackoff
  /\ IdleAux
  /\ IdleSystem

CallCheckOnWire ==
  /\ otaPc = "call"
  /\ \E parsed \in ParseMetadata(otaResp), w \in WriterResults :
       otaResult' = checkForFirmwareUpdate(parsed, w)
  /\ otaPc' = "done"
  /\ UNCHANGED <<otaResp, otaLog, boVars, auxVars, sysVars>>

NextMeta == CallCheckOnWire

SpecMeta == InitMeta /\ [][NextMeta]_vars

\* ----------------------- the fetch client under every schedule of calls
\* Most fetch calls of one run.
MaxCalls == 2

\* millis() at the first call: shortly after boot, and 30 s before the
\* 32-bit counter wraps.
ClockStarts == {1000, -30000}

\* Time between the return of one call and the next call (ms).
Pauses == {100, 20000, 60000}

InitFetch ==
  /\ GlobalsAtReset
  /\ NothingObserved
  /\ clock \in ClockStarts
  /\ wifiStatus = TRUE
  /\ pc = "client"
  /\ IdleBackoff
  /\ IdleOta
  /\ IdleAux

CallFetchCurrentPrice ==
  /\ pc = "client"
  /\ calls < MaxCalls
  /\ \E d \in Pauses, resp \in PriceResponses :
       CallPriceAt(AddU32(clock, d), resp)
  /\ calls' = calls + 1
  /\ UNCHANGED <<weekPrices, timerVars, boardVars, loopVars, pc, boVars, auxVars, screenVars, otaVars>>

CallFetchWeekPrices ==
  /\ pc = "client"
  /\ calls < MaxCalls
  /\ \E d \in Pauses, resp \in ChartResponses :
       CallChartAt(AddU32(clock, d), resp)
  /\ calls' = calls + 1
  /\ UNCHANGED <<currentPrice, timerVars, boardVars, loopVars, pc, boVars, auxVars, screenVars, otaVars>>

NextFetch == CallFetchCurrentPrice \/ CallFetchWeekPrices

SpecFetch == InitFetch /\ [][NextFetch]_vars

\* ------------------------------------------------- setup() and loop()
\* Most loop() iterations of one run that do more than delay(100), a WiFi
\* outage counting as one.
MaxLoops == 2

BATTERY_LOW_MV == 3300

\* Readings of the battery pin (12 bit): 2.90 V and 3.87 V.
AdcSamples == {1800, 2400}

\* The least and the greatest value random(howsmall, howbig) can draw.
RandomDraws(howsmall, howbig) ==
  IF howsmall >= howbig THEN {howsmall} ELSE {howsmall, howbig - 1}

BackoffDraws_none(failures) == {0}

\* calculateBackoff (main.cpp:166-175) on the extreme draws of its jitter.
BackoffDraws(failures) ==
  IF failures <= 0 THEN {0}
  ELSE LET backoff == BackoffBase(failures)
       IN  { Add32(backoff, jitter) :
               jitter \in RandomDraws(DivC(Neg32(backoff), 5), DivC(backoff, 5)) }

\* drawPrice(price, netOk), main.cpp:568-579, called with String(x, 2),
\* which is never empty: the text it leaves on the screen.
drawPrice(netOk) == IF netOk THEN "price" ELSE "NO DATA"

\* main.cpp:814-817 on reading adc: voltage = adc / 4095 * 3.3 * 2, low
\* when below BATTERY_LOW_VOLTAGE and above 0.5 V (compared in mV * 4095).
checkBattery(adc) ==
  adc * 6600 < BATTERY_LOW_MV * 4095 /\ adc * 6600 > 500 * 4095

\* How a connectWifi() call can go: the station is up at the polls-th poll
\* of WiFi.status(), or still down after all 30.
WifiAttempts ==
  { [connects |-> TRUE, polls |-> 4], [connects |-> FALSE, polls |-> 30] }

\* void connectWifi(), main.cpp:130-163: the flag it sets and its duration.
connectWifi(w) ==
  [wifiConnected |-> w.connects,
   elapsed |-> 500 * w.polls + (IF w.connects THEN 1000 ELSE 2000)]

\* Lengths of a WiFi outage, in loop() iterations of delay(1000).
OutageIterations == {1, 900, 3600}

\* Responses the price and chart fetches of a run can meet.
LoopPriceResponses ==
  { r \in PriceResponses :
      \/ r.kind = "connect_failed"
      \/ r.raw \in {ChunkFrame(PRICE_BODY_A), RATE_LIMIT_BODY} }

LoopChartResponses ==
  { r \in ChartResponses :
      r.kind = "connect_failed" \/ r.raw = CHART_BODY }

\* Responses the hourly update check of a run can meet.
LoopOtaResponses ==
  { [kind |-> "connect_failed", tag |-> << >>, assets |-> << >>],
    [kind |-> "timeout", tag |-> << >>, assets |-> << >>],
    [kind |-> "json_error", tag |-> << >>, assets |-> << >>],
    [kind |-> "document", tag |-> <<"v", "1", ".", "0", ".", "3">>,
     assets |-> << >>],
    [kind |-> "document", tag |-> <<"v", "1", ".", "1", ".", "0">>,
     assets |-> << >>],
    [kind |-> "document", tag |-> <<"v", "1", ".", "1", ".", "0">>,
     assets |-> << [name |-> "firmware.bin", url |-> "releases/a/firmware.bin"] >>] }

\* Duration of a checkForFirmwareUpdate call (main.cpp:405-557) on
\* response r with result res: exchange, 10 s timeout, download, and the
\* delay(5000) / delay(2000) of performFirmwareUpdate.
OtaElapsed(r, res) ==
  (IF r.kind = "connect_failed" THEN 300
   ELSE IF r.kind = "timeout" THEN 300 + CHART_TIMEOUT_MS + 1
   ELSE 1500)
  + (IF Len(res.writer) = 0 THEN 0
     ELSE IF res.writer[1].ret = "HTTP_UPDATE_FAILED" THEN 3000 + 5000
     ELSE IF res.writer[1].ret = "HTTP_UPDATE_OK" THEN 30000 + 2000
     ELSE 1000)

Due_absoluteDeadline(t, last, interval) == GeU32(t, AddU32(last, interval))

Due_sinceBoot(t, last, interval) == GeU32(t, interval)

Due_unlessBatteryLow(t, last, interval) ==
  ~batteryLow /\ GeU32(SubU32(t, last), interval)

\* main.cpp:736 / 769 / 785: t - last >= interval on unsigned long.
Due(t, last, interval) == GeU32(SubU32(t, last), interval)

AnythingDue(t) ==
  \/ Due(t, lastPriceUpdate, PRICE_UPDATE_INTERVAL)
  \/ Due(t, lastChartUpdate, CHART_UPDATE_INTERVAL)
  \/ Due(t, lastFirmwareCheck, FIRMWARE_UPDATE_INTERVAL)

\* Iterations of delay(100) until a task with this timer is due.
IterationsUntilDue(last, interval) ==
  (interval - SubU32(clock, last) + 99) \div 100

Min2(a, b) == IF a <= b THEN a ELSE b

Init ==
  /\ GlobalsAtReset
  /\ NothingObserved
  /\ clock = 0
  /\ wifiStatus = FALSE
  /\ pc = "boot"
  /\ IdleBackoff
  /\ IdleOta
  /\ IdleAux

\* setup(), main.cpp:648-670: intervals, battery check, connectWifi().
SetupStart ==
  /\ pc = "boot"
  /\ \E rp \in RandomDraws(0, 10000), rc \in RandomDraws(0, 30000),
        adc \in AdcSamples, w \in WifiAttempts :
       /\ PRICE_UPDATE_INTERVAL' = PRICE_UPDATE_INTERVAL_BASE + rp
       /\ CHART_UPDATE_INTERVAL' = CHART_UPDATE_INTERVAL_BASE + rc
       /\ adcValue' = adc
       /\ batteryChecks' = batteryChecks + 1
       /\ batteryLow' = checkBattery(adc)
       /\ batteryLog' = Append(batteryLog, [adc |-> adc, low |-> checkBattery(adc)])
       /\ wifiConnected' = connectWifi(w).wifiConnected
       /\ wifiStatus' = w.connects
       /\ clock' = AddU32(clock, 1000 + connectWifi(w).elapsed)
       /\ pc' = IF connectWifi(w).wifiConnected THEN "setup_price" ELSE "loop"
  /\ UNCHANGED <<clientVars, lastPriceUpdate, lastChartUpdate,
                 lastFirmwareCheck, loopVars, calls, boVars, auxVars, screenVars, otaVars>>

\* setup(), main.cpp:672-679: the first price fetch.
SetupFetchPrice ==
  /\ pc = "setup_price"
  /\ \E resp \in LoopPriceResponses : CallPriceAt(clock, resp)
  /\ priceLog' = Append(priceLog, lastFetch'.ret)
  /\ pc' = "setup_chart"
  /\ UNCHANGED <<weekPrices, timerVars, boardVars, now, loops, waited, calls,
                 boVars, auxVars, screenVars, otaVars>>

\* setup(), main.cpp:684-709: delay(20000), the first chart fetch, and the
\* three timers set to millis().
SetupFetchChart ==
  /\ pc = "setup_chart"
  /\ \E resp \in LoopChartResponses : CallChartAt(AddU32(clock, 20000), resp)
  /\ lastChartUpdate' = clock'
  /\ lastPriceUpdate' = clock'
  /\ lastFirmwareCheck' = clock'
  /\ priceText' = drawPrice(currentPrice > 0)
  /\ pc' = "loop"
  /\ UNCHANGED <<currentPrice, PRICE_UPDATE_INTERVAL, CHART_UPDATE_INTERVAL,
                 boardVars, loopVars, calls, boVars, auxVars, wifiLog, otaVars>>

\* loop(), main.cpp:722-766, with WiFi up and a task due: now = millis()
\* and the price step.
LoopPriceStepOn(responses) ==
  /\ pc = "loop"
  /\ wifiStatus
  /\ AnythingDue(clock)
  /\ loops < MaxLoops
  /\ now' = clock
  /\ loops' = loops + 1
  /\ IF Due(clock, lastPriceUpdate, PRICE_UPDATE_INTERVAL)
       THEN \E backoff \in BackoffDraws(consecutiveApiFailures),
               resp \in responses, rp \in RandomDraws(0, 10000) :
              /\ waited' = backoff
              /\ CallPriceAt(AddU32(clock, backoff), resp)
              /\ priceLog' = Append(priceLog, lastFetch'.ret)
              /\ priceText' = IF lastFetch'.ret THEN drawPrice(TRUE) ELSE priceText
              /\ lastPriceUpdate' = clock
              /\ PRICE_UPDATE_INTERVAL' = PRICE_UPDATE_INTERVAL_BASE + rp
       ELSE /\ waited' = 0
            /\ lastFetch' = NoFetch
            /\ UNCHANGED <<currentPrice, rateLimitBackoffUntil,
                           consecutiveApiFailures, clock, priceLog, priceText,
                           lastPriceUpdate, PRICE_UPDATE_INTERVAL>>
  /\ pc' = "chart"
  /\ UNCHANGED <<weekPrices, lastChartUpdate, lastFirmwareCheck,
                 CHART_UPDATE_INTERVAL, boardVars, calls, boVars, auxVars, wifiLog, otaVars>>

LoopPriceStep == LoopPriceStepOn(LoopPriceResponses)

\* loop(), main.cpp:769-782: the chart step.
LoopChartStep ==
  /\ pc = "chart"
  /\ IF Due(now, lastChartUpdate, CHART_UPDATE_INTERVAL)
       THEN \E resp \in LoopChartResponses, rc \in RandomDraws(0, 30000) :
              /\ CallChartAt(clock, resp)
              /\ priceText' = IF lastFetch'.ret THEN drawPrice(currentPrice > 0)
                                               ELSE priceText
              /\ lastChartUpdate' = now
              /\ CHART_UPDATE_INTERVAL' = CHART_UPDATE_INTERVAL_BASE + rc
       ELSE /\ lastFetch' = NoFetch
            /\ UNCHANGED <<weekPrices, rateLimitBackoffUntil,
                           consecutiveApiFailures, clock, lastChartUpdate, priceText,
                           CHART_UPDATE_INTERVAL>>
  /\ pc' = "firmware"
  /\ UNCHANGED <<currentPrice, lastPriceUpdate, lastFirmwareCheck,
                 PRICE_UPDATE_INTERVAL, boardVars, loopVars, calls, boVars, auxVars, wifiLog, otaVars>>

UpdateChecked_timerKept(resp, res) ==
  /\ otaResp' = resp
  /\ otaResult' = res
  /\ otaLog' = Append(otaLog, now)
  /\ priceText' = IF Len(res.writer) > 0 THEN "" ELSE priceText
  /\ IF Len(res.writer) > 0 /\ res.writer[1].restart
       THEN /\ clock' = AddU32(clock, OtaElapsed(resp, res))
            /\ pc' = "restarted"
            /\ UNCHANGED lastFirmwareCheck
       ELSE /\ clock' = AddU32(clock, OtaElapsed(resp, res) + 100)
            /\ pc' = "loop"
            /\ UNCHANGED lastFirmwareCheck

\* main.cpp:787-791 after a checkForFirmwareUpdate() call that met resp and
\* ended as res: a written update ends in ESP.restart() (main.cpp:554),
\* otherwise the timer is set and the iteration ends in delay(100).
UpdateChecked(resp, res) ==
  /\ otaResp' = resp
  /\ otaResult' = res
  /\ otaLog' = Append(otaLog, now)
  /\ priceText' = IF Len(res.writer) > 0 THEN "" ELSE priceText
  /\ IF Len(res.writer) > 0 /\ res.writer[1].restart
       THEN /\ clock' = AddU32(clock, OtaElapsed(resp, res))
            /\ pc' = "restarted"
            /\ UNCHANGED lastFirmwareCheck
       ELSE /\ clock' = AddU32(clock, OtaElapsed(resp, res) + 100)
            /\ pc' = "loop"
            /\ lastFirmwareCheck' = now

LoopFirmwareStep_resetsFailures ==
  /\ pc = "firmware"
  /\ IF Due(now, lastFirmwareCheck, FIRMWARE_UPDATE_INTERVAL)
       THEN \E resp \in LoopOtaResponses, w \in WriterResults :
              UpdateChecked(resp, checkForFirmwareUpdate(resp, w))
       ELSE /\ clock' = AddU32(clock, 100)
            /\ pc' = "loop"
            /\ UNCHANGED <<otaResp, otaResult, otaLog, lastFirmwareCheck, priceText>>
  /\ lastFetch' = NoFetch
  /\ consecutiveApiFailures' = 0
  /\ UNCHANGED <<currentPrice, weekPrices, rateLimitBackoffUntil,
                 lastPriceUpdate, lastChartUpdate,
                 PRICE_UPDATE_INTERVAL, CHART_UPDATE_INTERVAL, boardVars,
                 loopVars, calls, boVars, auxVars, wifiLog, otaPc>>

\* loop(), main.cpp:785-791: the update check and delay(100).
LoopFirmwareStep ==
  /\ pc = "firmware"
  /\ IF Due(now, lastFirmwareCheck, FIRMWARE_UPDATE_INTERVAL)
       THEN \E resp \in LoopOtaResponses, w \in WriterResults :
              UpdateChecked(resp, checkForFirmwareUpdate(resp, w))
       ELSE /\ clock' = AddU32(clock, 100)
            /\ pc' = "loop"
            /\ UNCHANGED <<otaResp, otaResult, otaLog, lastFirmwareCheck, priceText>>
  /\ lastFetch' = NoFetch
  /\ UNCHANGED <<currentPrice, weekPrices, rateLimitBackoffUntil,
                 consecutiveApiFailures, lastPriceUpdate, lastChartUpdate,
                 PRICE_UPDATE_INTERVAL, CHART_UPDATE_INTERVAL, boardVars,
                 loopVars, calls, boVars, auxVars, wifiLog, otaPc>>

LoopIdle_haltsOnFailure ==
  /\ pc = "loop"
  /\ wifiStatus
  /\ ~AnythingDue(clock)
  /\ loops < MaxLoops
  /\ consecutiveApiFailures = 0
  /\ clock' = AddU32(clock, 100 *
        Min2(IterationsUntilDue(lastPriceUpdate, PRICE_UPDATE_INTERVAL),
             Min2(IterationsUntilDue(lastChartUpdate, CHART_UPDATE_INTERVAL),
                  IterationsUntilDue(lastFirmwareCheck, FIRMWARE_UPDATE_INTERVAL))))
  /\ UNCHANGED <<clientVars, timerVars, boardVars, loopVars, pc, calls,
                 boVars, auxVars, screenVars, otaVars>>

\* loop() with WiFi up and nothing due, main.cpp:722-791: every iteration
\* is delay(100) only; taken as one run up to the first iteration that
\* finds a task due.
LoopIdle ==
  /\ pc = "loop"
  /\ wifiStatus
  /\ ~AnythingDue(clock)
  /\ loops < MaxLoops
  /\ clock' = AddU32(clock, 100 *
        Min2(IterationsUntilDue(lastPriceUpdate, PRICE_UPDATE_INTERVAL),
             Min2(IterationsUntilDue(lastChartUpdate, CHART_UPDATE_INTERVAL),
                  IterationsUntilDue(lastFirmwareCheck, FIRMWARE_UPDATE_INTERVAL))))
  /\ UNCHANGED <<clientVars, timerVars, boardVars, loopVars, pc, calls,
                 boVars, auxVars, screenVars, otaVars>>

\* loop() with WiFi down, main.cpp:723-731: the first iteration calls
\* connectWifi() if the flag was set; every iteration ends in delay(1000).
\* Taken as one run over the whole outage: it ends when connectWifi()
\* succeeds, or after k iterations when the station is associated again.
LoopWifiDown ==
  /\ pc = "loop"
  /\ ~wifiStatus
  /\ loops < MaxLoops
  /\ loops' = loops + 1
  /\ \E k \in OutageIterations, w \in WifiAttempts :
       IF wifiConnected
         THEN /\ wifiConnected' = connectWifi(w).wifiConnected
              /\ clock' = AddU32(clock, connectWifi(w).elapsed
                                   + (IF w.connects THEN 1000 ELSE 1000 * k))
         ELSE /\ clock' = AddU32(clock, 1000 * k)
              /\ UNCHANGED wifiConnected
  /\ wifiStatus' = TRUE
  /\ wifiLog' = Append(wifiLog, IF wifiConnected THEN "connectWifi" ELSE "delay")
  /\ priceText' = IF wifiConnected THEN "" ELSE priceText
  /\ UNCHANGED <<clientVars, timerVars, batteryLow, adcValue, batteryChecks, batteryLog, now, waited,
                 priceLog, pc, calls, boVars, auxVars, otaVars>>

\* The station loses its association between two iterations.
WifiLost ==
  /\ pc = "loop"
  /\ wifiStatus
  /\ loops < MaxLoops
  /\ wifiStatus' = FALSE
  /\ wifiLog' = Append(wifiLog, "lost")
  /\ UNCHANGED <<clientVars, timerVars, wifiConnected, batteryLow, adcValue, batteryChecks, batteryLog,
                 loopVars, clock, pc, calls, boVars, auxVars, priceText, otaVars>>

Next ==
  \/ SetupStart
  \/ SetupFetchPrice
  \/ SetupFetchChart
  \/ LoopPriceStep
  \/ LoopChartStep
  \/ LoopFirmwareStep
  \/ LoopIdle
  \/ LoopWifiDown
  \/ WifiLost

Spec == Init /\ [][Next]_vars

\* ------------------------------------ loop() around an update check
\* loop() taken up at the top of the iteration in which the update check
\* comes due: after an hour of uptime with no check so far, an hour after
\* the first check, and with millis() about to wrap.  The price fetch
\* is due in the same iteration, the chart fetch is not.
UptimeStarts ==
  { [clock |-> 3600050, lastFirmwareCheck |-> 0, otaLog |-> << >>],
    [clock |-> 7200150, lastFirmwareCheck |-> 3600050, otaLog |-> << 3600050 >>],
    [clock |-> -30000,
     lastFirmwareCheck |-> SubU32(-30000, FIRMWARE_UPDATE_INTERVAL),
     otaLog |-> << SubU32(-30000, FIRMWARE_UPDATE_INTERVAL) >>] }

InitLoop ==
  /\ \E u \in UptimeStarts :
       /\ clock = u.clock
       /\ lastFirmwareCheck = u.lastFirmwareCheck
       /\ otaLog = u.otaLog
       /\ lastPriceUpdate = SubU32(u.clock, PRICE_UPDATE_INTERVAL_BASE)
       /\ lastChartUpdate = SubU32(u.clock, 450000)
       /\ now = SubU32(u.clock, 100)
  /\ PRICE_UPDATE_INTERVAL = PRICE_UPDATE_INTERVAL_BASE
  /\ CHART_UPDATE_INTERVAL = CHART_UPDATE_INTERVAL_BASE
  /\ currentPrice = 97000
  /\ weekPrices = << >>
  /\ rateLimitBackoffUntil = 0
  /\ consecutiveApiFailures = 0
  /\ wifiConnected = TRUE
  /\ wifiStatus = TRUE
  /\ \E adc \in AdcSamples :
       /\ adcValue = adc
       /\ batteryLow = checkBattery(adc)
       /\ batteryLog = << [adc |-> adc, low |-> checkBattery(adc)] >>
  /\ batteryChecks = 1
  /\ loops = 0
  /\ calls = 0
  /\ lastFetch = NoFetch
  /\ waited = 0
  /\ priceLog = << >>
  /\ priceText = drawPrice(TRUE)
  /\ wifiLog = << >>
  /\ pc = "loop"
  /\ otaResp = [kind |-> "connect_failed", tag |-> << >>, assets |-> << >>]
  /\ otaResult = NoOtaResult
  /\ otaPc = "idle"
  /\ IdleBackoff
  /\ IdleAux

NextLoop ==
  \/ LoopPriceStep
  \/ LoopChartStep
  \/ LoopFirmwareStep
  \/ LoopIdle
  \/ LoopWifiDown
  \/ WifiLost

SpecLoop == InitLoop /\ [][NextLoop]_vars

\* ------------------------------------ loop() retrying the price fetch
\* loop() with WiFi up, taken up at the top of an iteration that finds the
\* price fetch due, after no failure, after one, and after four failed
\* fetches in a row (the fifth takes the backoff to its cap).  The fetch
\* meets every way fetchCurrentPrice can fail.
RetryCounts == {0, 1, 4}

RetryResponses ==
  { r \in PriceResponses :
      \/ r.kind \in {"connect_failed", "timeout"}
      \/ r.raw \in {ChunkFrame(PRICE_BODY_A), RATE_LIMIT_BODY, HTML_BODY} }

InitRetry ==
  /\ clock = 180000
  /\ now = 179900
  /\ lastPriceUpdate = 120000
  /\ lastChartUpdate = 60000
  /\ lastFirmwareCheck = 60000
  /\ PRICE_UPDATE_INTERVAL = PRICE_UPDATE_INTERVAL_BASE
  /\ CHART_UPDATE_INTERVAL = CHART_UPDATE_INTERVAL_BASE
  /\ currentPrice = 97000
  /\ weekPrices = << >>
  /\ rateLimitBackoffUntil = 0
  /\ consecutiveApiFailures \in RetryCounts
  /\ wifiConnected = TRUE
  /\ wifiStatus = TRUE
  /\ adcValue = 2400
  /\ batteryLow = checkBattery(2400)
  /\ batteryLog = << [adc |-> 2400, low |-> checkBattery(2400)] >>
  /\ batteryChecks = 1
  /\ loops = 0
  /\ calls = 0
  /\ lastFetch = NoFetch
  /\ waited = 0
  /\ priceLog = << >>
  /\ priceText = drawPrice(TRUE)
  /\ wifiLog = << >>
  /\ pc = "loop"
  /\ IdleOta
  /\ IdleBackoff
  /\ IdleAux

RetryPriceStep == LoopPriceStepOn(RetryResponses)

NextRetry ==
  \/ RetryPriceStep
  \/ LoopChartStep
  \/ LoopFirmwareStep
  \/ LoopIdle

\* Control moves on: from the top of an iteration that finds a task due
\* to the chart step, from there to the update step, and from there to the
\* top of the next iteration.
LoopAdvances ==
  \/ /\ pc = "loop"
     /\ wifiStatus
     /\ AnythingDue(clock)
     /\ loops < MaxLoops
     /\ pc' = "chart"
  \/ /\ pc = "chart"
     /\ pc' = "firmware"
  \/ /\ pc = "firmware"
     /\ pc' \in {"loop", "restarted"}

\* The Arduino core calls loop() again as soon as it returns, and every
\* statement of loop() returns: delay() is finite and the reads of a
\* response are bounded by their timeouts.  So an iteration that is
\* waiting for a task to come due goes on, and a step that has been
\* reached is completed.
SpecRetry ==
  InitRetry /\ [][NextRetry]_vars /\ WF_vars(LoopIdle) /\ WF_pc(LoopAdvances)

\* ------------------------------- two runs that differ in the battery only
\* Everything the firmware holds except what checkBattery() wrote.
Schedule ==
  [currentPrice |-> currentPrice, weekPrices |-> weekPrices,
   rateLimitBackoffUntil |-> rateLimitBackoffUntil,
   consecutiveApiFailures |-> consecutiveApiFailures, lastFetch |-> lastFetch,
   lastPriceUpdate |-> lastPriceUpdate, lastChartUpdate |-> lastChartUpdate,
   lastFirmwareCheck |-> lastFirmwareCheck,
   PRICE_UPDATE_INTERVAL |-> PRICE_UPDATE_INTERVAL,
   CHART_UPDATE_INTERVAL |-> CHART_UPDATE_INTERVAL,
   wifiConnected |-> wifiConnected, wifiStatus |-> wifiStatus,
   now |-> now, loops |-> loops, waited |-> waited, priceLog |-> priceLog,
   priceText |-> priceText, wifiLog |-> wifiLog, clock |-> clock, pc |-> pc,
   calls |-> calls, otaResp |-> otaResp, otaResult |-> otaResult,
   otaPc |-> otaPc, otaLog |-> otaLog]

SetSchedule(s) ==
  /\ currentPrice' = s.currentPrice
  /\ weekPrices' = s.weekPrices
  /\ rateLimitBackoffUntil' = s.rateLimitBackoffUntil
  /\ consecutiveApiFailures' = s.consecutiveApiFailures
  /\ lastFetch' = s.lastFetch
  /\ lastPriceUpdate' = s.lastPriceUpdate
  /\ lastChartUpdate' = s.lastChartUpdate
  /\ lastFirmwareCheck' = s.lastFirmwareCheck
  /\ PRICE_UPDATE_INTERVAL' = s.PRICE_UPDATE_INTERVAL
  /\ CHART_UPDATE_INTERVAL' = s.CHART_UPDATE_INTERVAL
  /\ wifiConnected' = s.wifiConnected
  /\ wifiStatus' = s.wifiStatus
  /\ now' = s.now
  /\ loops' = s.loops
  /\ waited' = s.waited
  /\ priceLog' = s.priceLog
  /\ priceText' = s.priceText
  /\ wifiLog' = s.wifiLog
  /\ clock' = s.clock
  /\ pc' = s.pc
  /\ calls' = s.calls
  /\ otaResp' = s.otaResp
  /\ otaResult' = s.otaResult
  /\ otaPc' = s.otaPc
  /\ otaLog' = s.otaLog

scheduleVars ==
  <<clientVars, timerVars, wifiConnected, wifiStatus, loopVars, screenVars,
    clock, pc, calls, otaVars>>

\* What checkBattery() wrote (main.cpp:810-822).
Battery ==
  [batteryLow |-> batteryLow, adcValue |-> adcValue,
   batteryChecks |-> batteryChecks, batteryLog |-> batteryLog]

SetBattery(b) ==
  /\ batteryLow' = b.batteryLow
  /\ adcValue' = b.adcValue
  /\ batteryChecks' = b.batteryChecks
  /\ batteryLog' = b.batteryLog

batteryVars == <<batteryLow, adcValue, batteryChecks, batteryLog>>

BatteryAfterSetup(adc) ==
  [batteryLow |-> checkBattery(adc), adcValue |-> adc, batteryChecks |-> 1,
   batteryLog |-> << [adc |-> adc, low |-> checkBattery(adc)] >>]

\* loop() after an hour of uptime, at the top of an iteration that finds
\* the price fetch, the chart fetch and the update check all due; the two
\* runs had different readings in setup().
InitTwin ==
  /\ clock = 3600050
  /\ now = 3599950
  /\ lastPriceUpdate = 3540050
  /\ lastChartUpdate = 2670050
  /\ lastFirmwareCheck = 0
  /\ PRICE_UPDATE_INTERVAL = PRICE_UPDATE_INTERVAL_BASE
  /\ CHART_UPDATE_INTERVAL = CHART_UPDATE_INTERVAL_BASE
  /\ currentPrice = 97000
  /\ weekPrices = << >>
  /\ rateLimitBackoffUntil = 0
  /\ consecutiveApiFailures = 0
  /\ wifiConnected = TRUE
  /\ wifiStatus = TRUE
  /\ loops = 0
  /\ calls = 0
  /\ lastFetch = NoFetch
  /\ waited = 0
  /\ priceLog = << >>
  /\ priceText = drawPrice(TRUE)
  /\ wifiLog = << >>
  /\ pc = "loop"
  /\ IdleOta
  /\ IdleBackoff
  /\ IdleDecode
  /\ IdleRead
  /\ \E adc \in AdcSamples, other \in AdcSamples :
       /\ adc # other
       /\ adcValue = adc
       /\ batteryLow = checkBattery(adc)
       /\ batteryChecks = 1
       /\ batteryLog = << [adc |-> adc, low |-> checkBattery(adc)] >>
       /\ twinShadow = BatteryAfterSetup(other)
  /\ twinMode = "lead"
  /\ twinSaved = Schedule
  /\ twinTarget = Schedule

LoopStep ==
  \/ LoopPriceStep
  \/ LoopChartStep
  \/ LoopFirmwareStep
  \/ LoopIdle

\* The leading run takes a step of loop().
TwinLead ==
  /\ twinMode = "lead"
  /\ twinSaved = Schedule
  /\ LoopStep

\* The other run is put on the variables, where the leading run was
\* before its step.
TwinRewind ==
  /\ twinMode = "lead"
  /\ twinSaved # Schedule
  /\ twinTarget' = Schedule
  /\ SetSchedule(twinSaved)
  /\ SetBattery(twinShadow)
  /\ twinShadow' = Battery
  /\ twinMode' = "follow"
  /\ UNCHANGED <<twinSaved, boVars, decodeVars, readVars>>

\* The other run is taken to where the leading run went, its battery
\* state left as it is.
TwinFollow ==
  /\ twinMode = "follow"
  /\ Schedule # twinTarget
  /\ SetSchedule(twinTarget)
  /\ UNCHANGED <<batteryVars, twinVars, boVars, decodeVars, readVars>>

\* The leading run is put back on the variables.
TwinSwitch ==
  /\ twinMode = "follow"
  /\ Schedule = twinTarget
  /\ SetBattery(twinShadow)
  /\ twinShadow' = Battery
  /\ twinSaved' = Schedule
  /\ twinMode' = "lead"
  /\ UNCHANGED <<scheduleVars, twinTarget, boVars, decodeVars, readVars>>

NextTwin ==
  \/ TwinLead
  \/ TwinRewind
  \/ TwinFollow
  \/ TwinSwitch

SpecTwin == InitTwin /\ [][NextTwin]_vars

\* ------------------------------------ checkBattery on its own
\* checkBattery() called again and again on every sequence of readings.
MaxSamples == 3

\* Readings of the battery pin: 0 V (nothing connected), 0.48 V, 3.288 V
\* and 3.304 V (16 mV apart, either side of BATTERY_LOW_VOLTAGE), 3.87 V,
\* and the full-scale reading 6.6 V.
AdcReadings == {0, 300, 2040, 2050, 2400, 4095}

InitBattery ==
  /\ IdleBackoff
  /\ IdleOta
  /\ IdleAux
  /\ IdleSystem

CallCheckBattery ==
  /\ calls < MaxSamples
  /\ calls' = calls + 1
  /\ \E adc \in AdcReadings :
       /\ adcValue' = adc
       /\ batteryLow' = checkBattery(adc)
       /\ batteryLog' = Append(batteryLog, [adc |-> adc, low |-> checkBattery(adc)])
  /\ batteryChecks' = batteryChecks + 1
  /\ UNCHANGED <<clientVars, timerVars, wifiConnected, wifiStatus, loopVars,
                 clock, pc, boVars, otaVars, auxVars, screenVars>>

NextBattery == CallCheckBattery

SpecBattery == InitBattery /\ [][NextBattery]_vars

\* ------------------------------------ the loops that read a response body
\* Each of the three requests reads the body the same way (main.cpp:273-281,
\* 357-365, 442-448): an empty String, reserve(n), then one += per byte the
\* client has.  reserve() allocates ahead and does not limit the String:
\* operator+=(char) is String::concat, which reallocates when the length
\* passes the allocation.  concat(char) goes through a two-byte C string, so
\* a NUL byte adds nothing.

MaxShort == 8
MaxOver == 2

Endpoints == {"price", "chart", "release"}

\* The argument of reserve() in each request.
ReserveSize(endpoint) ==
  CASE endpoint = "price" -> 512
    [] endpoint = "chart" -> 8192
    [] endpoint = "release" -> 4096

NUL == "NUL"

\* Bodies of n bytes, with a NUL byte nowhere, in front or at the end.
StreamsOfLen(n) ==
  { [i \in 1..n |-> IF i = z THEN NUL ELSE "x"] : z \in {0, 1, n} }

StreamLengths(endpoint) ==
  (0..MaxShort) \cup
  ((ReserveSize(endpoint) - MaxOver)..(ReserveSize(endpoint) + MaxOver))

\* while (client.available()) { char c = client.read(); rawPayload += c; }
ReadBody(endpoint, stream) == SelectSeq(stream, LAMBDA c : c # NUL)

InitRead ==
  /\ readEndpoint \in Endpoints
  /\ \E n \in StreamLengths(readEndpoint) : readStream \in StreamsOfLen(n)
  /\ rawPayload = << >>
  /\ readPc = "call"
  /\ IdleBackoff
  /\ IdleOta
  /\ IdleDecode
  /\ IdleTwin
  /\ IdleSystem

CallReadBody ==
  /\ readPc = "call"
  /\ rawPayload' = ReadBody(readEndpoint, readStream)
  /\ readPc' = "done"
  /\ UNCHANGED <<readEndpoint, readStream, decodeVars, twinVars, boVars, otaVars,
                 sysVars>>

NextRead == CallReadBody

SpecRead == InitRead /\ [][NextRead]_vars

\* ------------------------------------ stripChunkedEncoding on its own
\* The decoder applied to buffers of three kinds: plain bodies, chunked
\* bodies framed from known fragments, and chunked bodies cut inside the
\* data of their final chunk.

MaxFragLen == 1
MaxFragments == 2

FragmentBytes == {"a", "0", "\n", "\r"}

\* Fragments that read like framing: a line end, a last-chunk, and one of
\* 17 bytes (size line "11") that starts like a chunk of its own.
SpecialFragments ==
  { <<"\r", "\n">>,
    <<"0", "\r", "\n", "\r", "\n">>,
    <<"1", "\r", "\n", "a", "\r", "\n", "0", "\r", "\n", "\r", "\n",
      "f", "f", " ", "\n", "\r", "a">> }

Fragments ==
  SpecialFragments \cup
  UNION { [1..n -> FragmentBytes] : n \in 1..MaxFragLen }

FragmentLists == UNION { [1..n -> Fragments] : n \in 1..MaxFragments }

RECURSIVE Concatenation(_)
Concatenation(fragments) ==
  IF Len(fragments) = 0 THEN << >>
  ELSE fragments[1] \o Concatenation(Tail(fragments))

CRLF == <<"\r", "\n">>

RECURSIVE Chunks(_)
\* hex(len(f)) CRLF f CRLF for every fragment f.
Chunks(fragments) ==
  IF Len(fragments) = 0 THEN << >>
  ELSE HexString(Len(fragments[1])) \o CRLF \o fragments[1] \o CRLF
         \o Chunks(Tail(fragments))

\* The chunks followed by the zero-size terminator.
ChunkedBody(fragments) == Chunks(fragments) \o <<"0">> \o CRLF \o CRLF

\* The chunked body cut after the first k bytes of the data of its final
\* chunk, k below that chunk's size.
TruncatedBody(fragments, k) ==
  LET n == Len(fragments)
  IN  Chunks(SubSeq(fragments, 1, n - 1))
        \o HexString(Len(fragments[n])) \o CRLF \o SubSeq(fragments[n], 1, k)

\* 429 Too Many Requests
STATUS_LINE_BODY ==
  <<"4", "2", "9", " ", "T", "o", "o", " ", "M", "a", "n", "y", " ",
    "R", "e", "q", "u", "e", "s", "t", "s">>

\* Bodies that are not chunk-encoded: empty, without a newline, with a
\* first line that is not a number, and plain text that starts "429 ".
PlainBodies ==
  { << >>,
    PRICE_BODY_A,
    RATE_LIMIT_TEXT,
    STATUS_LINE_BODY,
    HTML_BODY,
    PRICE_BODY_A \o <<"\n">>,
    <<"{", "\n">> \o PRICE_BODY_A,
    <<"T", "o", "o", "\n">> \o RATE_LIMIT_TEXT,
    STATUS_LINE_BODY \o <<"\n">>,
    STATUS_LINE_BODY \o CRLF \o RATE_LIMIT_TEXT }

\* Buffers whose first size line is negative (strtol accepts a sign) or
\* larger than the buffer: "-3\n", "-1\n", "-2\n-2\n", "7ffffff0\nab".
SizeLineBodies ==
  { <<"-", "3", "\n">>,
    <<"-", "1", "\n">>,
    <<"-", "2", "\n", "-", "2", "\n">>,
    <<"7", "f", "f", "f", "f", "f", "f", "0", "\n", "a", "b">> }

DecodeInputs ==
  { [kind |-> "plain", fragments |-> << >>, raw |-> b] : b \in PlainBodies }
  \cup
  { [kind |-> "sizeline", fragments |-> << >>, raw |-> b] : b \in SizeLineBodies }
  \cup
  { [kind |-> "chunked", fragments |-> fs, raw |-> ChunkedBody(fs)] :
      fs \in FragmentLists }
  \cup
  UNION { { [kind |-> "truncated", fragments |-> fs, raw |-> TruncatedBody(fs, k)] :
              k \in 0..(Len(fs[Len(fs)]) - 1) } : fs \in FragmentLists }

InitDecode ==
  /\ decodeInput \in DecodeInputs
  /\ decodeOutput = << >>
  /\ decodePc = "call"
  /\ IdleBackoff
  /\ IdleOta
  /\ IdleRead
  /\ IdleTwin
  /\ IdleSystem

\* The call returns when the while loop of main.cpp:200-222 ends.  The
\* loop's control depends on pos alone, and pos stays within 0..Len(raw)-1
\* while it runs: a loop that has not ended after Len(raw) + 1 iterations
\* has met some position twice and repeats from there for ever.
LoopEnds(raw) ==
  Len(raw) = 0 \/ ~LooksChunked(raw)
    \/ ChunkLoop(raw, 0, << >>, Len(raw) + 1).done

\* A call that does not return stays in the loop ("looping"), the output
\* being what it had appended after Len(raw) + 1 iterations.
CallStripChunkedEncoding ==
  /\ decodePc = "call"
  /\ decodeOutput' = stripChunkedEncoding(decodeInput.raw)
  /\ decodePc' = IF LoopEnds(decodeInput.raw) THEN "done" ELSE "looping"
  /\ UNCHANGED <<decodeInput, readVars, twinVars, boVars, otaVars, sysVars>>

NextDecode == CallStripChunkedEncoding

SpecDecode == InitDecode /\ [][NextDecode]_vars

\* ------------------------------------------- claims: backoff (C8-C10)
\* min(INITIAL_BACKOFF_MS * 2^(n-1), MAX_BACKOFF_MS) as a mathematical
\* integer, n >= 1 (2^(n-1) is compared with the quotient so that no
\* product leaves the range of the checker's integers).
IdealBase(n) ==
  IF 2^(n - 1) > MAX_BACKOFF_MS \div INITIAL_BACKOFF_MS
    THEN MAX_BACKOFF_MS
    ELSE INITIAL_BACKOFF_MS * 2^(n - 1)

\* INITIAL_BACKOFF_MS * 2^n <= MAX_BACKOFF_MS.
BelowCap(n) == 2^n <= MAX_BACKOFF_MS \div INITIAL_BACKOFF_MS

\* The lower edge of the +-20% band around the base of attempt n, n >= 1.
LowerEdge(n) == IdealBase(n) - IdealBase(n) \div 5

\* C8: for every attempt >= 1 the value calculateBackoff returns is within
\* +-20% of min(INITIAL_BACKOFF_MS * 2^(attempt-1), MAX_BACKOFF_MS) and is
\* never negative.
C8_BackoffWithinJitter ==
  (boPc = "done" /\ attempt >= 1) =>
     /\ backoffResult >= 0
     /\ 5 * (backoffResult - IdealBase(attempt)) <= IdealBase(attempt)
     /\ 5 * (IdealBase(attempt) - backoffResult) <= IdealBase(attempt)

\* C9: for every consecutive-failure count the wait calculateBackoff
\* returns, jitter included, is at most 60000 ms.
C9_BackoffAtMostMax ==
  boPc = "done" => backoffResult <= MAX_BACKOFF_MS

\* C10: calculateBackoff(0) = 0, and while INITIAL_BACKOFF_MS * 2^n <=
\* MAX_BACKOFF_MS every value returned for attempt n + 1 is >= every value
\* returned for attempt n: every value returned for an attempt n + 1 is at
\* least LowerEdge(n + 1), and every value returned for attempt n is at
\* most LowerEdge(n + 1).
C10_BackoffMonotone ==
  boPc = "done" =>
     /\ (attempt = 0 => backoffResult = 0)
     /\ ((attempt >= 1 /\ BelowCap(attempt - 1)) =>
           backoffResult >= LowerEdge(attempt))
     /\ (BelowCap(attempt) => backoffResult <= LowerEdge(attempt + 1))

\* C10 witness: attempt 3 returned its largest value, 20000 + 3999, and
\* attempt 4 is still below the cap.
C10_Witness ==
  /\ boPc = "done" /\ attempt = 3 /\ BelowCap(attempt)
  /\ backoffResult = 23999

\* ------------------------------------ claims: update check (C1, C2)
\* Version comparison as the specification defines it (section 4.3): one
\* optional leading v/V is dropped, up to three dot-separated decimal
\* components are read, missing ones are 0, and a first component that is
\* not a number is a parse error.
Digits == <<"0", "1", "2", "3", "4", "5", "6", "7", "8", "9">>

IsDigit(c) == \E d \in 1 .. 10 : Digits[d] = c

DigitVal(c) == (CHOOSE d \in 1 .. 10 : Digits[d] = c) - 1

IsNumber(w) == Len(w) > 0 /\ \A i \in 1 .. Len(w) : IsDigit(w[i])

RECURSIVE NumberVal(_)
NumberVal(w) ==
  IF Len(w) = 0 THEN 0
  ELSE 10 * NumberVal(SubSeq(w, 1, Len(w) - 1)) + DigitVal(w[Len(w)])

RECURSIVE SplitDots(_)
\* The dot-separated components of w.
SplitDots(w) ==
  IF \A i \in 1 .. Len(w) : w[i] # "."
    THEN << w >>
    ELSE LET d == CHOOSE i \in 1 .. Len(w) :
                    w[i] = "." /\ \A j \in 1 .. (i - 1) : w[j] # "."
         IN  << SubSeq(w, 1, d - 1) >> \o SplitDots(SubSeq(w, d + 1, Len(w)))

\* <<major, minor, patch>>, or "ParseError".
ParseVersion(v) ==
  LET w == IF Len(v) > 0 /\ v[1] \in {"v", "V"} THEN Tail(v) ELSE v
      c == SplitDots(w)
      part(i) == IF i <= Len(c) THEN NumberVal(c[i]) ELSE 0
  IN  IF \E i \in 1 .. Len(c) : i <= 3 /\ ~IsNumber(c[i])
        THEN "ParseError"
        ELSE << part(1), part(2), part(3) >>

\* compare(a, b): "Less", "Equal", "Greater" or "ParseError".
CompareVersions(a, b) ==
  LET x == ParseVersion(a)
      y == ParseVersion(b)
  IN  IF x = "ParseError" \/ y = "ParseError" THEN "ParseError"
      ELSE IF x = y THEN "Equal"
      ELSE IF \/ x[1] > y[1]
              \/ (x[1] = y[1] /\ x[2] > y[2])
              \/ (x[1] = y[1] /\ x[2] = y[2] /\ x[3] > y[3])
        THEN "Greater"
        ELSE "Less"

RemoteIsNewer ==
  /\ otaResp.kind = "document"
  /\ CompareVersions(otaResp.tag, FIRMWARE_VERSION) = "Greater"

HasExpectedAsset ==
  \E i \in 1 .. Len(otaResp.assets) : otaResp.assets[i].name = "firmware.bin"

\* C1: an update check starts the Firmware Writer only when the remote
\* release version is strictly greater than FIRMWARE_VERSION; for a remote
\* version that is less, equal or unparseable the writer is not invoked.
C1_WriterOnlyIfNewer ==
  (otaPc = "done" /\ otaResult.writer # << >>) => RemoteIsNewer

\* C2: with a newer remote version and no asset named exactly
\* "firmware.bin" the check ends in NoMatchingAsset without invoking the
\* Firmware Writer; whenever the writer is invoked, its URL is that of an
\* asset named exactly "firmware.bin".
C2_NoFallbackAsset ==
  otaPc = "done" =>
     /\ (RemoteIsNewer /\ ~HasExpectedAsset) =>
           /\ otaResult.outcome = "NoMatchingAsset"
           /\ otaResult.writer = << >>
           /\ otaResult.ret = FALSE
     /\ \A k \in 1 .. Len(otaResult.writer) :
           \E i \in 1 .. Len(otaResp.assets) :
              /\ otaResp.assets[i].name = "firmware.bin"
              /\ otaResp.assets[i].url = otaResult.writer[k].url

\* C2 witness: release v1.1.0 whose assets are bootloader.bin and
\* firmware.bin.sig ended in NoMatchingAsset.
C2_Witness ==
  /\ otaPc = "done"
  /\ otaResp.tag = <<"v", "1", ".", "1", ".", "0">>
  /\ Len(otaResp.assets) = 2
  /\ otaResp.assets[1].name = "bootloader.bin"
  /\ otaResp.assets[2].name = "firmware.bin.sig"
  /\ otaResult.outcome = "NoMatchingAsset"

\* ------------------------------------------ claims: fetch client (C4-C6)
\* The last call was made while millis() < rateLimitBackoffUntil.
CalledInBackoff ==
  lastFetch.fn # "none" /\ LtU32(lastFetch.at, lastFetch.untilBefore)

\* The payload the last call decoded carries a rate-limit marker.
MarkerInPayload ==
  /\ lastFetch.resp.kind = "body"
  /\ LET payload == stripChunkedEncoding(lastFetch.resp.raw)
     IN  \/ Contains(payload, <<"r", "a", "t", "e", " ", "l", "i", "m", "i", "t">>)
         \/ Contains(payload, <<"4", "2", "9">>)

\* C4: a fetch call made while now < rateLimitBackoffUntil refuses at once:
\* it opens no transport session, takes no time, returns failure and leaves
\* the failure counter, the rate-limit timestamp and the caller's value as
\* they were.
C4_GateRefuses ==
  CalledInBackoff =>
    /\ lastFetch.sessions = 0
    /\ ~lastFetch.parsed
    /\ ~lastFetch.ret
    /\ lastFetch.clockAfter = lastFetch.at
    /\ clock = lastFetch.at
    /\ consecutiveApiFailures = lastFetch.failuresBefore
    /\ rateLimitBackoffUntil = lastFetch.untilBefore
    /\ lastFetch.outKept

C4_Witness ==
  /\ CalledInBackoff
  /\ lastFetch.fn = "chart"
  /\ lastFetch.resp.kind = "body"
  /\ lastFetch.failuresBefore = 1

\* C5: a price fetch whose decoded payload carries a rate-limit marker sets
\* rateLimitBackoffUntil to millis() + 60000 as read when the marker is
\* found, adds exactly one to the failure counter, returns failure, and
\* neither parses the body as JSON nor writes the caller's price.
C5_RateLimitCooldown ==
  (lastFetch.fn = "price" /\ ~CalledInBackoff /\ MarkerInPayload) =>
    /\ rateLimitBackoffUntil = AddU32(clock, 60000)
    /\ clock = AddU32(lastFetch.at, lastFetch.resp.elapsed)
    /\ consecutiveApiFailures = lastFetch.failuresBefore + 1
    /\ ~lastFetch.ret
    /\ ~lastFetch.parsed
    /\ lastFetch.outKept

C5_Witness ==
  /\ lastFetch.fn = "price"
  /\ ~CalledInBackoff
  /\ lastFetch.resp.raw = ERROR_429_BODY
  /\ lastFetch.failuresBefore = 1
  /\ consecutiveApiFailures = 2

\* C6: every fetch call that passed the gate and ended in a connection
\* failure, a first-byte timeout, a JSON parse error or a missing field
\* adds exactly one to the consecutive-failure counter and returns failure,
\* on the price endpoint and on the chart endpoint.
C6_EveryFailureCounts ==
  (/\ lastFetch.fn \in {"price", "chart"}
   /\ ~CalledInBackoff
   /\ lastFetch.exit \in {"ConnectionFailed", "Timeout", "ParseError",
                          "InvalidStructure"}) =>
    /\ ~lastFetch.ret
    /\ consecutiveApiFailures = lastFetch.failuresBefore + 1

\* ------------------------------------------- claims: scheduler (C3, C7)
\* The battery check read a voltage between 0.5 V and 3.0 V: below the
\* critical threshold of the power arbiter (reading * 6.6 V / 4095).
CriticalReading ==
  adcValue * 6600 > 500 * 4095 /\ adcValue * 6600 < 3000 * 4095

\* C3: once the power state is Critical it stays Critical for the boot and
\* no price fetch, chart fetch or update check is started any more.
C3_CriticalIsTerminal ==
  CriticalReading =>
    /\ lastFetch.fn = "none"
    /\ otaResult = NoOtaResult

\* C7: a price fetch that succeeds leaves the consecutive-failure counter
\* at 0, whatever failures came before, so that calculateBackoff yields 0
\* for the next attempt; and a price step of loop() that follows a
\* successful price fetch waits 0 ms before it fetches.
C7_SuccessResetsBackoff ==
  /\ (lastFetch.fn = "price" /\ lastFetch.ret) =>
        /\ consecutiveApiFailures = 0
        /\ calculateBackoff(consecutiveApiFailures) = {0}
  /\ (/\ pc = "chart"
      /\ lastFetch.fn = "price"
      /\ Len(priceLog) >= 2
      /\ priceLog[Len(priceLog) - 1]) => waited = 0

\* A failed fetch in setup(), a success after a wait in the first price
\* step, and the second price step fetching with no wait.
C7_Witness ==
  /\ pc = "chart"
  /\ lastFetch.fn = "price"
  /\ Len(priceLog) = 3
  /\ ~priceLog[1]
  /\ priceLog[2]
  /\ waited = 0
  /\ lastFetch.failuresBefore = 0


\* ------------------------------------ claims: scheduler loop (C11, C12)

\* C11: the failure backoff is never a hard sleep: no single iteration of
\* the scheduler loop blocks for the length of the backoff, the loop comes
\* round again within about 100 ms of wait.  loop() calls delay(backoff)
\* inside the price step (main.cpp:740-744), so an iteration that follows a
\* failed price fetch blocks for the whole jittered backoff.
C11_BackoffNeverHardSleep == waited <= 100

\* C12: every iteration of the scheduler loop samples the battery before
\* its price step: when an iteration stands past its price step,
\* checkBattery() has been called in the loop, that is, more often than
\* the one call of setup() (main.cpp:661).  loop() never calls it.
C12_EveryIterationSamplesBattery ==
  pc \in {"chart", "firmware"} => batteryChecks > 1


\* ------------------------------------ claims: response buffers (C13)

\* C13: the raw response buffer never holds more bytes than the capacity
\* reserved for it (512 price, 8192 chart, 4096 release metadata), whatever
\* the length of the response.  The String grows with every byte read.
C13_BufferWithinCapacity == Len(rawPayload) <= ReserveSize(readEndpoint)


\* ------------------------------------ claims: chunk decoder (C14-C16)

\* C14: a buffer that is not chunk-encoded comes back from
\* stripChunkedEncoding byte for byte, also when it has no newline or when
\* its first line only starts with hex digits followed by a space.
\* A first line "429 Too Many Requests" passes the size-line test of
\* main.cpp:189-193 (strtol stops at the space), and the body is then read
\* as chunks.
C14_PlainUnchanged ==
  decodePc = "done" /\ decodeInput.kind = "plain"
    => decodeOutput = decodeInput.raw

\* C15: the buffer framed from non-empty fragments f1..fn as hex(len(fi))
\* CRLF fi CRLF, then the zero-size terminator, decodes to exactly
\* f1 \o ... \o fn, whatever bytes the fragments hold.
C15_ChunkedRoundTrip ==
  decodePc = "done" /\ decodeInput.kind = "chunked"
    => decodeOutput = Concatenation(decodeInput.fragments)

\* Two fragments decoded, the first holding line ends and a last-chunk.
C15_Witness ==
  /\ decodePc = "done"
  /\ decodeInput.kind = "chunked"
  /\ Len(decodeInput.fragments) = 2
  /\ decodeInput.fragments[1] = <<"0", "\r", "\n", "\r", "\n">>
  /\ decodeOutput = <<"0", "\r", "\n", "\r", "\n", "\n">>

\* C16: for a chunked buffer cut inside the data of its final chunk the
\* decoder returns exactly the bytes of the chunks before it, and the
\* result never outgrows the buffer reserved for it
\* (result.reserve(raw.length()), main.cpp:196).
C16_TruncatedFinalChunk ==
  decodePc = "done" /\ decodeInput.kind = "truncated"
    => /\ decodeOutput =
            Concatenation(SubSeq(decodeInput.fragments, 1,
                                 Len(decodeInput.fragments) - 1))
       /\ Len(decodeOutput) <= Len(decodeInput.raw)

\* A buffer of two chunks cut after 5 of the 17 bytes of the second: the
\* first chunk is returned, the 5 bytes of the second are not.
C16_Witness ==
  /\ decodePc = "done"
  /\ decodeInput.kind = "truncated"
  /\ Len(decodeInput.fragments) = 2
  /\ Len(decodeInput.fragments[2]) = 17
  /\ Len(decodeInput.raw) = Len(Chunks(<<decodeInput.fragments[1]>>)) + 4 + 5
  /\ decodeOutput = <<"a">>


\* ------------------------------------ claims: decoder termination (C33)

\* C33: stripChunkedEncoding returns on every input, also when a size line
\* is a negative or an oversized number, and what it returns is never
\* longer than its input.
\* A negative size passes the unsigned comparison of main.cpp:212 when
\* pos + chunkSize is not negative, and pos += chunkSize then moves the
\* read position back: on "-3\n" every iteration appends the three bytes
\* and starts again at position 0.
C33_DecoderTerminates ==
  /\ decodePc # "looping"
  /\ decodePc = "done" => Len(decodeOutput) <= Len(decodeInput.raw)


\* ------------------------------------ claims: cooldown and clock wrap (C34)

\* The last call found a cooldown set by an earlier rate-limit signal:
\* rateLimitBackoffUntil is 0 until the first signal (main.cpp:99).
CooldownWasSet ==
  lastFetch.fn \in {"price", "chart"} /\ lastFetch.untilBefore # 0

\* Milliseconds from the rate-limit signal (millis() when
\* rateLimitBackoffUntil was assigned, main.cpp:289 / 373) to the entry of
\* the last call.
SinceSignal ==
  SubU32(lastFetch.at, SubU32(lastFetch.untilBefore, RATE_LIMIT_COOLDOWN_MS))

\* C34: a fetch call entered less than 60000 ms after the last rate-limit
\* signal is refused by the gate and one entered 60000 ms or more after it
\* is not, for every value of the 32-bit clock, also when the clock wraps
\* during the cooldown.
\* The gate compares millis() with the absolute deadline
\* millis() + 60000 (main.cpp:230, 289); a deadline that wrapped is below
\* every clock value before the wrap.
C34_CooldownAcrossWrap ==
  CooldownWasSet =>
    (lastFetch.exit = "Backoff" <=> LtU32(SinceSignal, RATE_LIMIT_COOLDOWN_MS))

\* ------------------------------------ claims: well-formed prices (C35)

\* The document the JSON parser yields for the decoded body of the last
\* call's response.
AnsweredDocument == deserializeJson(stripChunkedEncoding(lastFetch.resp.raw))

\* The last call was a price fetch that passed the gate and received a
\* body that is valid JSON with a bitcoin.usd number.
WellFormedPriceAnswer ==
  /\ lastFetch.fn = "price"
  /\ lastFetch.exit # "Backoff"
  /\ lastFetch.resp.kind = "body"
  /\ ~AnsweredDocument.error
  /\ AnsweredDocument.doc.hasUsd

\* C35: every well-formed price response makes fetchCurrentPrice return
\* true with the price stored, the failure counter at 0 and the cooldown
\* timestamp as it was, also when the digits of the price contain "429".
\* The rate-limit test of main.cpp:287 searches the whole payload for
\* "429" before the payload is parsed.
C35_WellFormedPriceSucceeds ==
  WellFormedPriceAnswer =>
    /\ lastFetch.ret
    /\ currentPrice = AnsweredDocument.doc.usd
    /\ consecutiveApiFailures = 0
    /\ rateLimitBackoffUntil = lastFetch.untilBefore

\* ------------------------------------ claims: update cycle (C17-C20)

WriterRan == Len(otaResult.writer) > 0

\* C17: after an update check that invoked the Firmware Writer the device
\* restarts if and only if the writer ended with HTTP_UPDATE_OK.  The
\* restart ends the run, no scheduler step follows it; after a failed or
\* not-needed writer the iteration ends as usual, back at the top of the
\* loop with the update timer set.
C17_RestartIffWriterOk ==
  /\ [](/\ pc = "restarted" => WriterRan
        /\ WriterRan => (pc = "restarted" <=> otaResult.writer[1].ret = "HTTP_UPDATE_OK"))
  /\ [][pc # "restarted"]_vars

\* The writer was invoked, succeeded, and the device restarted.
C17_Witness ==
  /\ WriterRan
  /\ otaResult.writer[1].ret = "HTTP_UPDATE_OK"
  /\ pc = "restarted"


\* C18: an update check never retries itself: whatever its outcome, the
\* loop sets the update timer to the loop timestamp of the iteration that
\* made the check, and any two checks of a boot lie at least
\* FIRMWARE_UPDATE_INTERVAL ms of loop time apart.
C18_UpdateCheckNotRetried ==
  /\ \A i \in 1 .. (Len(otaLog) - 1) :
       GeU32(SubU32(otaLog[i + 1], otaLog[i]), FIRMWARE_UPDATE_INTERVAL)
  /\ Len(otaLog) > 0 /\ pc # "restarted"
       => lastFirmwareCheck = otaLog[Len(otaLog)]

\* A second check was made an hour after the first and failed; a later
\* iteration, less than the interval after it, went through its update
\* step and made no request.
C18_Witness ==
  /\ Len(otaLog) = 2
  /\ otaResult.outcome \in {"ConnectionFailed", "Timeout", "ParseError", "NoMatchingAsset"}
  /\ pc = "loop"
  /\ loops = 2
  /\ now # otaLog[2]
  /\ LtU32(SubU32(now, otaLog[2]), FIRMWARE_UPDATE_INTERVAL)


\* C19: given a newer remote version and an asset list that holds the
\* expected firmware filename, one update check invokes the Firmware
\* Writer exactly once, on the first asset of that name, also when several
\* assets carry the name; no check invokes it more than once.
C19_WriterInvokedOnce ==
  otaPc = "done" =>
     /\ Len(otaResult.writer) <= 1
     /\ (RemoteIsNewer /\ HasExpectedAsset) =>
           /\ otaResult.outcome = "UpdateStarted"
           /\ Len(otaResult.writer) = 1
           /\ otaResult.writer[1].url =
                otaResp.assets[FindFirmwareAsset(otaResp.assets)].url

\* Release v1.1.0 with two assets named firmware.bin: the writer ran once,
\* on the first.
C19_Witness ==
  /\ otaPc = "done"
  /\ otaResp.tag = <<"v", "1", ".", "1", ".", "0">>
  /\ Len(otaResp.assets) = 2
  /\ otaResp.assets[1].name = "firmware.bin"
  /\ otaResp.assets[2].name = "firmware.bin"
  /\ otaResp.assets[1].url # otaResp.assets[2].url
  /\ Len(otaResult.writer) = 1
  /\ otaResult.writer[1].url = otaResp.assets[1].url

\* C20: a remote tag that differs from the embedded version only by one
\* leading "v" or "V" is equal to it: the check ends with no update needed
\* and the Firmware Writer is not invoked.  main.cpp:459-462 strips a
\* lowercase "v" only, so "V1.0.3" is compared as it stands and differs
\* from "1.0.3".
C20_PrefixedTagIsEqual ==
  (/\ otaPc = "done"
   /\ otaResp.kind = "document"
   /\ otaResp.tag \in {<<"v">> \o FIRMWARE_VERSION, <<"V">> \o FIRMWARE_VERSION})
    => /\ otaResult.outcome = "UpToDate"
       /\ otaResult.writer = << >>


\* ------------------------------------ claims: version test (C21, C22)

\* The check found a version it takes for new: it went on to the assets.
ReportedAvailable == otaResult.outcome \in {"UpdateStarted", "NoMatchingAsset"}

\* C21: the update check orders the remote version against the embedded
\* one on the integer triple (major, minor, patch), missing components
\* read as 0: it takes the remote version for new exactly when the
\* comparison is Greater.  main.cpp:468 tests latestVersion !=
\* FIRMWARE_VERSION, which is no ordering: a lower version is new as well.
C21_ComparisonOrdersVersions ==
  (/\ otaPc = "done"
   /\ otaResp.kind = "document"
   /\ CompareVersions(otaResp.tag, FIRMWARE_VERSION) # "ParseError")
    => (ReportedAvailable
          <=> CompareVersions(otaResp.tag, FIRMWARE_VERSION) = "Greater")

\* C22: a remote tag whose first component is not a number cannot be
\* compared; the check never reports it as an update and never invokes
\* the Firmware Writer for it.  main.cpp:468 finds "abc" different from
\* FIRMWARE_VERSION and takes it for a new version.
C22_UnparseableNeverAvailable ==
  (/\ otaPc = "done"
   /\ otaResp.kind = "document"
   /\ CompareVersions(otaResp.tag, FIRMWARE_VERSION) = "ParseError")
    => (~ReportedAvailable /\ otaResult.writer = << >>)


\* ------------------------------------ claims: battery (C23, C24)

\* Readings within the noise band around the low threshold.
NoiseBand == {2040, 2050}

\* C23: the battery classification has hysteresis: over three successive
\* samples that stay within the noise band around the low threshold the
\* classification never changes twice.  checkBattery() computes batteryLow
\* from the current reading alone (main.cpp:817).
C23_NoFlappingInNoiseBand ==
  \A i \in 1 .. (Len(batteryLog) - 2) :
     (\A k \in 0 .. 2 : batteryLog[i + k].adc \in NoiseBand)
       => ~(/\ batteryLog[i].low # batteryLog[i + 1].low
            /\ batteryLog[i + 1].low # batteryLog[i + 2].low)

\* A reading no battery can give: at most 0.5 V, or the full scale of the
\* converter.
ImplausibleReading(adc) == adc * 6600 <= 500 * 4095 \/ adc = 4095

\* C24: a reading outside the plausible range is discarded, the
\* classification held before the sample stays.  checkBattery() assigns
\* batteryLow = FALSE on such a reading, whatever it was before.
C24_ImplausibleReadingKeepsState ==
  \A i \in 1 .. (Len(batteryLog) - 1) :
     ImplausibleReading(batteryLog[i + 1].adc)
       => batteryLog[i + 1].low = batteryLog[i].low


\* ------------------------------------ claims: loop and display (C26, C27)

\* C26: after a price fetch of the scheduler loop has failed the screen
\* shows "NO DATA".  The loop calls drawPrice() only after a successful
\* fetch (main.cpp:748-761), so the text drawn before stays.
C26_NoDataAfterFailedFetch ==
  (pc = "chart" /\ lastFetch.fn = "price" /\ ~lastFetch.ret)
    => priceText = "NO DATA"

\* C27: every time the loop finds the link down after it had been up, it
\* calls connectWifi() for that outage.  The loop calls it only while the
\* flag wifiConnected is set (main.cpp:724-728), and nothing but a
\* successful connectWifi() sets the flag again.
C27_EveryLossReconnects ==
  \A i \in 1 .. (Len(wifiLog) - 1) :
     wifiLog[i] = "lost" => wifiLog[i + 1] = "connectWifi"

\* ------------------------------------------- who writes the counters (C29)
\* The step made a fetch call that passed the rate-limit gate: lastFetch is
\* the record of a call that found the values the step started from.
FetchStep ==
  /\ lastFetch'.fn # "none"
  /\ lastFetch'.failuresBefore = consecutiveApiFailures
  /\ lastFetch'.untilBefore = rateLimitBackoffUntil
  /\ ~CalledInBackoff'

\* C29: consecutiveApiFailures and rateLimitBackoffUntil are written only
\* by fetch operations: a step that changes either of them is a fetch call
\* past the gate, so the loop's gating, the update check, battery sampling,
\* the WiFi handling and drawing leave both unchanged; and
\* rateLimitBackoffUntil changes only in a call whose decoded response body
\* carries a rate-limit marker.
C29_CountersWrittenOnlyByFetch ==
  [][/\ (consecutiveApiFailures' # consecutiveApiFailures
          \/ rateLimitBackoffUntil' # rateLimitBackoffUntil) => FetchStep
     /\ rateLimitBackoffUntil' # rateLimitBackoffUntil => MarkerInPayload']_vars

\* An update check was made, with battery samples taken and WiFi handled,
\* while the failure counter and the rate-limit timestamp both held values
\* written by earlier fetches.
C29_Witness ==
  /\ pc = "loop"
  /\ lastFetch.fn = "none"
  /\ Len(otaLog) > 0
  /\ consecutiveApiFailures > 0
  /\ rateLimitBackoffUntil # 0

\* ------------------------------------- backoff and cooldown together (C30)
\* The loop's price step made a fetch that opened a transport session
\* while the failure counter was positive.
RetriedWithIo ==
  /\ pc = "chart"
  /\ lastFetch.fn = "price"
  /\ lastFetch.sessions > 0
  /\ lastFetch.failuresBefore > 0

\* w is a value of calculateBackoff(n): the clamped base plus a jitter
\* that random() can draw, in 32-bit arithmetic.
IsBackoffOf(w, n) ==
  LET backoff == BackoffBase(n)
  IN  n > 0 /\ Sub32(w, backoff) \in random(DivC(Neg32(backoff), 5), DivC(backoff, 5))

\* C30: whenever a price fetch started from loop() performs network I/O
\* with failure count n > 0, the iteration first waited a value of
\* calculateBackoff(n), the fetch was called that long after the
\* iteration's timestamp, and millis() at the call was not below
\* rateLimitBackoffUntil.
C30_BackoffThenCooldown ==
  RetriedWithIo =>
    /\ IsBackoffOf(waited, lastFetch.failuresBefore)
    /\ lastFetch.at = AddU32(now, waited)
    /\ ~LtU32(lastFetch.at, lastFetch.untilBefore)

\* A retry after a rate-limited fetch: the backoff was waited and the
\* cooldown set by the earlier fetch had run out when the request went out.
C30_Witness ==
  /\ RetriedWithIo
  /\ waited > 0
  /\ lastFetch.untilBefore # 0

C28_BatteryNeverGates ==
  [][(twinMode = "follow" /\ twinMode' = "follow") => LoopStep]_vars

\* The run with the other battery state followed an iteration that
\* fetched the price and the chart and checked for an update.
C28_Witness ==
  /\ twinMode = "follow"
  /\ Schedule = twinTarget
  /\ batteryLow # twinShadow.batteryLow
  /\ pc = "loop"
  /\ Len(priceLog) > 0
  /\ lastChartUpdate = now
  /\ Len(otaLog) > 0

\* ------------------------------------------ metadata framing (C31)
\* C31: a release document delivered with chunked transfer coding is
\* decoded before it is parsed: the check ends as it does on the flat
\* document, with the version test made on the release's own tag.
C31_ChunkedMetadataDecoded ==
  (otaPc = "done" /\ otaResp.framing = "chunked") =>
    \E w \in WriterResults :
       otaResult = checkForFirmwareUpdate(
                     [kind |-> "document", tag |-> otaResp.tag,
                      assets |-> otaResp.assets], w)

\* ------------------------------------------- independent timers (C32)
\* The interval of a step has elapsed at the iteration's timestamp t.
Elapsed(t, last, interval) == ~LtU32(SubU32(t, last), interval)

\* C32: in an iteration with WiFi up, the price fetch, the chart fetch and
\* the update check each run exactly when the iteration's timestamp minus
\* the step's own last-run timestamp has reached the step's interval; a
\* step that runs sets its own timestamp to the iteration's timestamp, and
\* no step, run or skipped, changes the timestamp of another.
C32_StepsGatedIndependently ==
  [][/\ (pc = "loop" /\ pc' = "chart") =>
          /\ Len(priceLog') = Len(priceLog) + 1
                <=> Elapsed(now', lastPriceUpdate, PRICE_UPDATE_INTERVAL)
          /\ lastPriceUpdate' =
                IF Len(priceLog') = Len(priceLog) + 1 THEN now' ELSE lastPriceUpdate
          /\ UNCHANGED <<lastChartUpdate, lastFirmwareCheck>>
     /\ (pc = "chart" /\ pc' = "firmware") =>
          /\ lastFetch'.fn = "chart"
                <=> Elapsed(now, lastChartUpdate, CHART_UPDATE_INTERVAL)
          /\ lastChartUpdate' =
                IF lastFetch'.fn = "chart" THEN now ELSE lastChartUpdate
          /\ UNCHANGED <<lastPriceUpdate, lastFirmwareCheck, now>>
     /\ (pc = "firmware" /\ pc' = "loop") =>
          /\ Len(otaLog') = Len(otaLog) + 1
                <=> Elapsed(now, lastFirmwareCheck, FIRMWARE_UPDATE_INTERVAL)
          /\ lastFirmwareCheck' =
                IF Len(otaLog') = Len(otaLog) + 1 THEN now ELSE lastFirmwareCheck
          /\ UNCHANGED <<lastPriceUpdate, lastChartUpdate, now>>]_vars

\* An iteration whose price step waited out a backoff and fetched, and
\* whose chart step, later by that wait, still ran on the iteration's
\* timestamp.
C32_Witness ==
  /\ pc = "firmware"
  /\ loops > 0
  /\ waited > 0
  /\ lastFetch.fn = "chart"
  /\ lastPriceUpdate = now
  /\ lastChartUpdate = now
  /\ clock # now

\* ------------------------------------ claims: spacing of price attempts (C36)

\* The price step of the iteration that ended before this state waited a
\* backoff and then called fetchCurrentPrice, which passed the gate (no
\* cooldown has been set since boot): a price attempt with network I/O,
\* started at lastPriceUpdate + waited (main.cpp:733, 743, 746).
PriceIoAfterWait ==
  /\ pc = "loop"
  /\ loops > 0
  /\ waited > 0
  /\ lastPriceUpdate = now
  /\ rateLimitBackoffUntil = 0

\* This step is a price step whose fetchCurrentPrice call opened a session.
PriceIoStarts ==
  /\ pc = "loop"
  /\ pc' = "chart"
  /\ lastFetch'.fn = "price"
  /\ lastFetch'.sessions > 0

\* C36: a price attempt with network I/O starts at least 60000 ms after
\* the start of the price attempt with network I/O before it, whether that
\* one succeeded or failed and whatever backoff it waited first.
\* lastPriceUpdate takes the timestamp read before the backoff delay
\* (main.cpp:733, 764), so the interval runs from before the wait and the
\* attempt itself started up to the whole wait later.
C36_PriceAttemptsSpaced ==
  [][(PriceIoAfterWait /\ PriceIoStarts) =>
       GeU32(SubU32(lastFetch'.at, AddU32(lastPriceUpdate, waited)),
             PRICE_UPDATE_INTERVAL_BASE)]_vars

\* ------------------------------------ claims: chart series on failure (C37)

\* C37: a fetchWeekPrices call that returns false leaves weekPrices as it
\* was before the call, on every failure path: gate refusal, connection
\* failure, timeout, rate limit, parse error, missing or empty prices
\* array.
\* out.clear() (main.cpp:389) runs before the points are read, and the
\* call returns out.size() > 0 (main.cpp:401): an answer without usable
\* points empties the series and reports failure.
C37_FailedChartKeepsSeries ==
  (lastFetch.fn = "chart" /\ ~lastFetch.ret) => lastFetch.outKept

\* ------------------------------------ claims: gating across the wrap (C38)

\* The value of an unsigned long as two 16-bit halves.
HighHalf(x) == IF x >= 0 THEN x \div 65536 ELSE 65536 + (x \div 65536)

LowHalf(x) == x % 65536

\* The milliseconds the clock has counted from the reading last to the
\* reading t, the clock running round from 2^32 - 1 to 0, are at least
\* interval: the subtraction done on the halves with a borrow.
CountedAtLeast(t, last, interval) ==
  LET borrow == IF LowHalf(t) < LowHalf(last) THEN 1 ELSE 0
      lo == LowHalf(t) - LowHalf(last) + 65536 * borrow
      hi == (HighHalf(t) - HighHalf(last) - borrow) % 65536
  IN  \/ hi > HighHalf(interval)
      \/ hi = HighHalf(interval) /\ lo >= LowHalf(interval)

\* C38: across the wrap of millis() a step runs in an iteration exactly
\* when the milliseconds counted since its last run have reached its
\* interval: it is never skipped or postponed because the clock wrapped,
\* and never run early; and loop() idles only while no step is due.
C38_GatingAcrossWrap ==
  [][/\ (pc = "loop" /\ pc' = "chart") =>
          (Len(priceLog') = Len(priceLog) + 1
             <=> CountedAtLeast(clock, lastPriceUpdate, PRICE_UPDATE_INTERVAL))
     /\ (pc = "chart" /\ pc' = "firmware") =>
          (lastFetch'.fn = "chart"
             <=> CountedAtLeast(now, lastChartUpdate, CHART_UPDATE_INTERVAL))
     /\ (pc = "firmware" /\ pc' \in {"loop", "restarted"}) =>
          (Len(otaLog') = Len(otaLog) + 1
             <=> CountedAtLeast(now, lastFirmwareCheck, FIRMWARE_UPDATE_INTERVAL))
     /\ (pc = "loop" /\ pc' = "loop" /\ wifiStatus /\ wifiStatus') =>
          /\ ~CountedAtLeast(clock, lastPriceUpdate, PRICE_UPDATE_INTERVAL)
          /\ ~CountedAtLeast(clock, lastChartUpdate, CHART_UPDATE_INTERVAL)
          /\ ~CountedAtLeast(clock, lastFirmwareCheck, FIRMWARE_UPDATE_INTERVAL)]_vars

\* The first iteration ran the price step and the update check before the
\* wrap; the price step ran again in an iteration after the wrap, within
\* 10 s of its interval.
C38_Witness ==
  /\ pc = "chart"
  /\ lastFetch.fn = "price"
  /\ Len(priceLog) = 2
  /\ Len(otaLog) > 0
  /\ otaLog[Len(otaLog)] < 0
  /\ now >= 0
  /\ now < 100000
  /\ lastPriceUpdate = now

====
